---- MODULE Spec2Model ----
(***************************************************************************)
(* The crowdcompute coordinator (core/coordinator/main.py): the task       *)
(* queue, the lease table (assigned_tasks), the worker directory and the   *)
(* job tracker (job_status), driven by its HTTP handlers, together with    *)
(* the worker runtime (core/worker/main.py) and the sort plugins.          *)
(*                                                                         *)
(* Python dicts are modelled as functions; tasks_queue, whose iteration    *)
(* order matters, is a sequence of Task records in insertion order.        *)
(* uuid4() is modelled as a counter: every draw is a value never drawn     *)
(* before.  Time is the coordinator's clock `now`, in seconds.             *)
(***************************************************************************)
EXTENDS Integers, Sequences, FiniteSets, TLC

VARIABLES
    registered_workers,  \* worker_id -> RegisterForm
    tasks_queue,         \* sequence of Task, head = oldest dict entry
    assigned_tasks,      \* task_id -> [task, worker_id, lease_expires]
    job_status,          \* job_id -> [job_type, total_tasks, completed_tasks, map_results]
    job_dirs,            \* job ids that have a directory under file_storage/jobs
    results_files,       \* [job_id, task_id, filename] -> content, under file_storage/results
    task_uuids,          \* number of uuid4() draws made for task ids
    now,                 \* the coordinator's clock (datetime.now), seconds
    enqueued,            \* history: the tasks put in tasks_queue, in order of insertion
    dispatched,          \* history: the task ids handed out by get-task, in order
    released,            \* history: the task ids released successfully
    job_files,           \* [job_id, filename] -> lines, under file_storage/jobs
    worker,              \* the worker processes (core/worker/main.py), one record each
    threads              \* the request threads of the coordinator, one record each

\* the coordinator's own state
server == <<registered_workers, tasks_queue, assigned_tasks, job_status, job_dirs,
            results_files, task_uuids, now, enqueued, dispatched, released, job_files>>

\* the processes around it
clients == <<worker, threads>>

vars == <<registered_workers, tasks_queue, assigned_tasks, job_status, job_dirs,
          results_files, task_uuids, now, enqueued, dispatched, released, job_files,
          worker, threads>>

coord == <<registered_workers, tasks_queue, assigned_tasks, job_status>>

-----------------------------------------------------------------------------
(* Bounds of the model *)

MaxWorkers == 2
MaxMapTasks == 2
MaxUploads == 1
MaxTicks == 1

(* Program constants *)

lease_time == 15
COORDINATOR_BASE_URL == "http://localhost:8000"
demo_job_id == [prefix |-> "demo_job", uuid8 |-> 123]
demo_task_id == 1

-----------------------------------------------------------------------------
(* Values *)

EmptyMap == [x \in {} |-> x]

\* dict[key] = value
Put(map, key, value) == [k \in DOMAIN map \cup {key} |-> IF k = key THEN value ELSE map[k]]

\* del dict[key]
Del(map, key) == [k \in DOMAIN map \ {key} |-> map[k]]

\* f"chunk_{i}" and f"chunk_{i}.txt", for the indices the bounds allow
ChunkKey(i) == <<"chunk_0", "chunk_1", "chunk_2", "chunk_3", "chunk_4", "chunk_5">>[i + 1]
ChunkFile(i) == <<"chunk_0.txt", "chunk_1.txt", "chunk_2.txt", "chunk_3.txt">>[i + 1]

\* f"{COORDINATOR_BASE_URL}/upload/{job_id}/{task_id}"
UploadUrl(base, job_id, task_id) ==
    [base |-> base, space |-> "upload", job_id |-> job_id, task_id |-> task_id]

\* f"{coordinator_base_url}/data/jobs/{job_id}/{chunk_filename}"
JobFileUrl(base, job_id, filename) ==
    [base |-> base, space |-> "data/jobs", job_id |-> job_id, filename |-> filename]

\* output_filename = f"{task_id}_{file.filename or 'result.dat'}"
OutputFilename(task_id, filename) ==
    [task_id |-> task_id, filename |-> IF filename = "" THEN "result.dat" ELSE filename]

\* f"{COORDINATOR_BASE_URL}/data/results/{job_id}/{output_filename}"
ResultUrl(base, job_id, output_filename) ==
    [base |-> base, space |-> "data/results", job_id |-> job_id,
     output_filename |-> output_filename]

\* os.path.join(JOBS_DIR, job_id, filename)
JobFile(job_id, filename) == [job_id |-> job_id, filename |-> filename]

\* the files written at start-up into the directory of the demo job
demo_job_files ==
    Put(Put(EmptyMap, JobFile(demo_job_id, "hashes.txt"),
            <<"8743b52063cd84097a65d1633f5c74f5">>),
        JobFile(demo_job_id, "wordlist_chunk_01.txt"), <<"hello", "world", "hashcat">>)

TaskPayload(job_type, input_files, output_path, params) ==
    [job_type |-> job_type, input_files |-> input_files,
     output_path |-> output_path, params |-> params]

Task(task_id, job_id, payload) ==
    [task_id |-> task_id, job_id |-> job_id, payload |-> payload]

demo_task_payload ==
    TaskPayload("hashcat_demo",
                [hashes |-> JobFileUrl(COORDINATOR_BASE_URL, demo_job_id, "hashes.txt"),
                 wordlist |-> JobFileUrl(COORDINATOR_BASE_URL, demo_job_id,
                                         "wordlist_chunk_01.txt")],
                UploadUrl(COORDINATOR_BASE_URL, demo_job_id, demo_task_id),
                [hashcat_mode |-> "0", options |-> "-a 0 -O"])

demo_task == Task(demo_task_id, demo_job_id, demo_task_payload)

\* The plugins that can create jobs: only SortMapPlugin is registered.
JOB_CREATOR_PLUGINS == {"sort_map"}

-----------------------------------------------------------------------------
(* tasks_queue as an insertion-ordered dict keyed by task_id *)

QueueIds(q) == {q[i].task_id : i \in 1..Len(q)}

\* tasks_queue[task.task_id] = task: a new key goes last, a known key keeps its place
QueuePut(q, task) ==
    IF task.task_id \in QueueIds(q)
    THEN [i \in 1..Len(q) |-> IF q[i].task_id = task.task_id THEN task ELSE q[i]]
    ELSE Append(q, task)

\* next(iter(tasks_queue.items()))
QueueFirst(q) == Head(q)

\* get-task that forgets to delete the task it hands out
MutQueueDelKeeps(q, task_id) == q

\* del tasks_queue[task_id]
QueueDel(q, task_id) == SelectSeq(q, LAMBDA t : t.task_id # task_id)

-----------------------------------------------------------------------------
(* SortMapPlugin *)

RECURSIVE ShardLoop(_, _, _, _, _)
\* the `for line in f_in` loop of _shard: chunks is the list of chunks opened so
\* far, the last of them being written
ShardLoop(lines, chunks, lines_written, lines_per_chunk, num_chunks) ==
    IF lines = <<>> THEN chunks
    ELSE LET chunk_index == Len(chunks) - 1
             written == [chunks EXCEPT ![Len(chunks)] = Append(@, Head(lines))]
         IN  IF lines_written + 1 >= lines_per_chunk /\ chunk_index < num_chunks - 1
             THEN ShardLoop(Tail(lines), Append(written, <<>>), 0,
                            lines_per_chunk, num_chunks)
             ELSE ShardLoop(Tail(lines), written, lines_written + 1,
                            lines_per_chunk, num_chunks)

\* _shard that writes everything into one chunk
MutShardOneChunk(lines, num_chunks) == IF Len(lines) = 0 THEN <<>> ELSE <<lines>>

\* SortMapPlugin._shard: the chunks written, [] for an empty file or when the
\* division by num_chunks raises (the except clause returns [])
Shard(lines, num_chunks) ==
    IF Len(lines) = 0 THEN <<>>
    ELSE IF num_chunks = 0 THEN <<>>
    ELSE ShardLoop(lines, << <<>> >>, 0, (Len(lines) \div num_chunks) + 1, num_chunks)

\* the name the submitted file carries: the client sends the base name of the
\* file it uploads
SubmittedFilename == "unsorted.txt"

\* uploaded_file.filename or "UNSORTED.txt"
UnsortedFilename(filename) == IF filename = "" THEN "UNSORTED.txt" ELSE filename

\* SortMapPlugin.create_job_tasks: the payloads (output_path a placeholder built
\* from a uuid of its own), the initial job status and the files left in job_dir
\* (the unsorted file and the chunks); ok is FALSE when it raises
SortMapCreateJobTasks(job_id, base, lines, num_chunks, uuid0) ==
    LET chunks == Shard(lines, num_chunks)
    IN  [ok |-> chunks # <<>>,
         files |->
             [f \in {UnsortedFilename(SubmittedFilename)}
                       \cup {ChunkFile(i - 1) : i \in 1..Len(chunks)} |->
                 IF f = UnsortedFilename(SubmittedFilename) THEN lines
                 ELSE chunks[CHOOSE i \in 1..Len(chunks) : ChunkFile(i - 1) = f]],
         task_payloads |->
             [i \in 1..Len(chunks) |->
                 TaskPayload("sort_map",
                             [data |-> JobFileUrl(base, job_id, ChunkFile(i - 1))],
                             UploadUrl(base, job_id, uuid0 + i),
                             EmptyMap)],
         initial_status |->
             [job_type |-> "sort", total_tasks |-> Len(chunks),
              completed_tasks |-> 0, map_results |-> <<>>],
         uuids |-> Len(chunks)]

-----------------------------------------------------------------------------
(* Initial state: the module-level code of the coordinator *)

\* the history entry of a task put in the queue after the get-task calls in served
Enqueued(task, served) ==
    [task_id |-> task.task_id, job_id |-> task.job_id,
     job_type |-> task.payload.job_type, seen |-> Len(served)]

\* the coordinator once its module-level code has run
ServerInit ==
    /\ registered_workers = EmptyMap
    /\ tasks_queue = <<demo_task>>
    /\ assigned_tasks = EmptyMap
    /\ job_status = EmptyMap
    /\ job_dirs = {demo_job_id}
    /\ results_files = EmptyMap
    /\ task_uuids = 1
    /\ now = 0
    /\ enqueued = <<Enqueued(demo_task, <<>>)>>
    /\ dispatched = <<>>
    /\ released = {}
    /\ job_files = demo_job_files

Init ==
    /\ ServerInit
    /\ worker = <<>>
    /\ threads = <<>>

-----------------------------------------------------------------------------
(* POST /register *)

\* the form the worker runtime sends (REGISTER_FORM)
REGISTER_FORM ==
    [name |-> "Worker-1", capabilities |-> [cpus |-> 4, ram_gb |-> 16, gpus |-> 1]]

\* a register that hands every worker the same id
MutFreshWorkerIdFixed(workers) == 1

\* worker_id = str(uuid.uuid4()): every draw made so far is a key of the directory
FreshWorkerId(workers) == Cardinality(DOMAIN workers) + 1

register_worker(data) ==
    /\ Cardinality(DOMAIN registered_workers) < MaxWorkers
    /\ LET worker_id == FreshWorkerId(registered_workers)
       IN  registered_workers' = Put(registered_workers, worker_id, data)
    /\ UNCHANGED <<tasks_queue, assigned_tasks, job_status, job_dirs, results_files,
                   task_uuids, now, enqueued, dispatched, released, job_files>>

-----------------------------------------------------------------------------
(* POST /get-task *)

\* get-task that counts the lease from the start of the coordinator
MutLeaseExpiresAtNoClock(clock) == lease_time

\* lease_expires_at = datetime.now(timezone.utc) + lease_time
LeaseExpiresAt(clock) == clock + lease_time

\* assigned_tasks[task_id] = {"task": ..., "worker_id": ..., "lease_expires": ...}
Lease(task, worker_id, lease_expires_at) ==
    [task |-> task, worker_id |-> worker_id, lease_expires |-> lease_expires_at]

\* get-task that hands out the newest entry
MutNextTaskNewest(q) == q[Len(q)]

\* the entry of tasks_queue that get-task hands out
NextTask(q) == QueueFirst(q)

\* get-task that answers an empty queue with an error
MutAssignTaskResponseEmptyIsError(worker_id) ==
    IF worker_id \notin DOMAIN registered_workers \/ tasks_queue = <<>>
    THEN [status |-> 404, detail |-> "Worker not found"]
    ELSE [status |-> 200, task |-> NextTask(tasks_queue),
          lease_expires |-> LeaseExpiresAt(now)]

\* what get-task answers
assign_task_response(worker_id) ==
    IF worker_id \notin DOMAIN registered_workers
    THEN [status |-> 404, detail |-> "Worker not found"]
    ELSE IF tasks_queue = <<>>
    THEN [status |-> 200, message |-> "No tasks available."]
    ELSE [status |-> 200, task |-> NextTask(tasks_queue),
          lease_expires |-> LeaseExpiresAt(now)]

assign_task(worker_id) ==
    IF worker_id \notin DOMAIN registered_workers
    THEN UNCHANGED server
    ELSE IF tasks_queue = <<>>
    THEN UNCHANGED server
    ELSE LET task == NextTask(tasks_queue)
             task_id == task.task_id
             lease_expires_at == LeaseExpiresAt(now)
         IN  /\ tasks_queue' = QueueDel(tasks_queue, task_id)
             /\ assigned_tasks' =
                    Put(assigned_tasks, task_id, Lease(task, worker_id, lease_expires_at))
             /\ dispatched' = Append(dispatched, task_id)
             /\ UNCHANGED <<registered_workers, job_status, job_dirs, results_files,
                            task_uuids, now, enqueued, released, job_files>>

-----------------------------------------------------------------------------
(* POST /release-task *)

\* release_task that lets any registered caller release a leased task
MutReleaseStatusNoOwnerCheck(leases, worker_id, task_id) ==
    IF task_id \notin DOMAIN leases THEN 404 ELSE 200

\* the two checks that open release_task: 404, 403, or 200 when both pass
ReleaseStatus(leases, worker_id, task_id) ==
    IF task_id \notin DOMAIN leases THEN 404
    ELSE IF leases[task_id].worker_id # worker_id THEN 403
    ELSE 200

\* release_task whose owner check answers 403 and carries on
MutRaisesOnlyNotFound(status) == status = 404

\* raise HTTPException(status_code=...): the handler stops there
Raises(status) == status >= 400

\* release_task that keeps the lease it has released
MutRemoveLeaseKeeps(leases, task_id) == leases

\* del assigned_tasks[task_id]
RemoveLease(leases, task_id) == Del(leases, task_id)

\* a chaining logic that never builds the reduce task
MutAllMapsDoneNever(current_job) == FALSE

\* the chaining logic that builds the reduce task once a map task is done
MutAllMapsDoneAfterFirst(current_job) == current_job.completed_tasks >= 1

\* current_job["completed_tasks"] == current_job["total_tasks"]
AllMapsDone(current_job) == current_job.completed_tasks = current_job.total_tasks

\* {f"chunk_{i}": url for i, url in enumerate(current_job["map_results"])}
ReduceInputFiles(map_results) ==
    [k \in {ChunkKey(i - 1) : i \in 1..Len(map_results)} |->
        map_results[CHOOSE i \in 1..Len(map_results) : ChunkKey(i - 1) = k]]

\* the reduce task release_task builds once every map task is released
ReduceTask(job_id, current_job, reduce_task_id) ==
    Task(reduce_task_id, job_id,
         TaskPayload("sort_reduce", ReduceInputFiles(current_job.map_results),
                     UploadUrl(COORDINATOR_BASE_URL, job_id, reduce_task_id), EmptyMap))

\* a chaining logic that drops the tracker entry at the first released map task
MutJobChainingFinalizesAtMap(job_id, task_job_type, jobs, q, uuids) ==
    IF job_id \in DOMAIN jobs /\ task_job_type \in {"sort_map", "sort_reduce"}
    THEN [job_status |-> Del(jobs, job_id), tasks_queue |-> q, task_uuids |-> uuids]
    ELSE [job_status |-> jobs, tasks_queue |-> q, task_uuids |-> uuids]

\* the job chaining logic of release_task: the job tracker, the queue and the
\* uuid draws after it has run for a released task of job_id
JobChaining(job_id, task_job_type, jobs, q, uuids) ==
    IF job_id \notin DOMAIN jobs
    THEN [job_status |-> jobs, tasks_queue |-> q, task_uuids |-> uuids]
    ELSE IF task_job_type = "sort_map"
    THEN LET current_job ==
                 [jobs[job_id] EXCEPT !.completed_tasks = @ + 1]
             counted == [jobs EXCEPT ![job_id] = current_job]
         IN  IF AllMapsDone(current_job)
             THEN [job_status |-> counted,
                   tasks_queue |-> QueuePut(q, ReduceTask(job_id, current_job, uuids + 1)),
                   task_uuids |-> uuids + 1]
             ELSE [job_status |-> counted, tasks_queue |-> q, task_uuids |-> uuids]
    ELSE IF task_job_type = "sort_reduce"
    THEN [job_status |-> Del(jobs, job_id), tasks_queue |-> q, task_uuids |-> uuids]
    ELSE [job_status |-> jobs, tasks_queue |-> q, task_uuids |-> uuids]

\* what release-task answers
release_task_response(worker_id, task_id) ==
    LET status == ReleaseStatus(assigned_tasks, worker_id, task_id)
    IN  IF status = 404
        THEN [status |-> 404, detail |-> "Task not found or already released"]
        ELSE IF status = 403
        THEN [status |-> 403, detail |-> "Worker not authorized to release this task"]
        ELSE [status |-> 200, message |-> "released successfully"]

release_task(worker_id, task_id) ==
    IF Raises(ReleaseStatus(assigned_tasks, worker_id, task_id))
    THEN UNCHANGED server
    ELSE LET task_object == assigned_tasks[task_id].task
             job_id == task_object.job_id
             task_job_type == task_object.payload.job_type
             after == JobChaining(job_id, task_job_type, job_status,
                                  tasks_queue, task_uuids)
         IN  /\ assigned_tasks' = RemoveLease(assigned_tasks, task_id)
             /\ job_status' = after.job_status
             /\ tasks_queue' = after.tasks_queue
             /\ task_uuids' = after.task_uuids
             /\ enqueued' =
                    IF Len(after.tasks_queue) > Len(tasks_queue)
                    THEN Append(enqueued,
                                Enqueued(after.tasks_queue[Len(after.tasks_queue)],
                                         dispatched))
                    ELSE enqueued
             /\ released' = released \cup {task_id}
             /\ UNCHANGED <<registered_workers, job_dirs, results_files, now,
                            dispatched, job_files>>

-----------------------------------------------------------------------------
(* POST /submit-job/{job_type} *)

\* job_id = f"{job_type}_{str(uuid.uuid4())[:8]}": a value that no job directory
\* carries (the draw of a submission that failed is forgotten with its directory)
FreshJobId(job_type, dirs) == [prefix |-> job_type, uuid8 |-> Cardinality(dirs)]

\* os.makedirs(job_dir, exist_ok=True)
MakeDirs(dirs, job_id) == dirs \cup {job_id}

\* a failed submission that leaves its directory behind
MutRemoveTreeKeeps(dirs, job_id) == dirs

\* shutil.rmtree(job_dir)
RemoveTree(dirs, job_id) == dirs \ {job_id}

\* the files the plugin writes into job_dir
WriteJobFiles(files, job_id, written) ==
    [k \in DOMAIN files \cup {JobFile(job_id, f) : f \in DOMAIN written} |->
        IF k.job_id = job_id /\ k.filename \in DOMAIN written
        THEN written[k.filename] ELSE files[k]]

\* shutil.rmtree(job_dir), for the files in it
RemoveJobFiles(files, job_id) ==
    [k \in {f \in DOMAIN files : f.job_id # job_id} |-> files[k]]

\* a submission that keeps the output_path the plugin wrote
MutWithOutputPathKeeps(payload, job_id, task_id) == payload

\* payload.output_path = f"{COORDINATOR_BASE_URL}/upload/{job_id}/{task_id}"
WithOutputPath(payload, job_id, task_id) ==
    [payload EXCEPT !.output_path = UploadUrl(COORDINATOR_BASE_URL, job_id, task_id)]

\* the tasks the `for payload in task_payloads` loop of submit_job builds, every
\* one with a uuid of its own drawn after the plugin's draws
SubmittedTasks(job_id, task_payloads, uuid0) ==
    [i \in 1..Len(task_payloads) |->
        Task(uuid0 + i, job_id, WithOutputPath(task_payloads[i], job_id, uuid0 + i))]

RECURSIVE PutAll(_, _)
\* tasks_queue[task.task_id] = task, for every task in order
PutAll(q, tasks) ==
    IF tasks = <<>> THEN q ELSE PutAll(QueuePut(q, Head(tasks)), Tail(tasks))

\* the sort_map tasks created so far, which the model bounds
MapTasksCreated ==
    Cardinality({i \in 1..Len(enqueued) : enqueued[i].job_type = "sort_map"})

\* the submissions the model follows: at most bound sort_map tasks created
MapTasksWithin(bound, file, num_chunks) ==
    MapTasksCreated + Len(Shard(file, num_chunks)) <= bound

\* create_job_tasks of the plugin registered for job_type
CreateJobTasks(job_type, job_id, file, num_chunks) ==
    SortMapCreateJobTasks(job_id, COORDINATOR_BASE_URL, file, num_chunks, task_uuids)

\* what submit-job answers
submit_job_response(job_type, file, num_chunks) ==
    IF job_type \notin JOB_CREATOR_PLUGINS
    THEN [status |-> 404, detail |-> "not found or cannot create jobs"]
    ELSE LET job_id == FreshJobId(job_type, job_dirs)
             created == CreateJobTasks(job_type, job_id, file, num_chunks)
         IN  IF ~created.ok
             THEN [status |-> 500, detail |-> "Failed to create job"]
             ELSE [status |-> 200, message |-> "Job submitted successfully",
                   job_id |-> job_id, tasks_created |-> Len(created.task_payloads)]

submit_job(job_type, file, num_chunks) ==
    IF job_type \notin JOB_CREATOR_PLUGINS
    THEN UNCHANGED server
    ELSE LET job_id == FreshJobId(job_type, job_dirs)
             created == CreateJobTasks(job_type, job_id, file, num_chunks)
         IN  IF ~created.ok
             THEN \* create_job_tasks raised: shutil.rmtree(job_dir), 500
                  /\ job_dirs' = RemoveTree(MakeDirs(job_dirs, job_id), job_id)
                  /\ job_files' =
                         RemoveJobFiles(WriteJobFiles(job_files, job_id, created.files),
                                        job_id)
                  /\ UNCHANGED <<registered_workers, tasks_queue, assigned_tasks,
                                 job_status, results_files, task_uuids, now,
                                 enqueued, dispatched, released>>
             ELSE LET tasks == SubmittedTasks(job_id, created.task_payloads,
                                              task_uuids + created.uuids)
                  IN  /\ job_dirs' = MakeDirs(job_dirs, job_id)
                      /\ job_files' = WriteJobFiles(job_files, job_id, created.files)
                      /\ tasks_queue' = PutAll(tasks_queue, tasks)
                      /\ job_status' = Put(job_status, job_id, created.initial_status)
                      /\ task_uuids' = task_uuids + created.uuids + Len(tasks)
                      /\ enqueued' = enqueued \o
                             [i \in 1..Len(tasks) |-> Enqueued(tasks[i], dispatched)]
                      /\ UNCHANGED <<registered_workers, assigned_tasks, results_files,
                                     now, dispatched, released>>

-----------------------------------------------------------------------------
(* POST /upload/{job_id}/{task_id} *)

\* an upload that keeps only the latest result of a job
MutLogResultOverwrites(jobs, job_id, file_url) ==
    IF job_id \in DOMAIN jobs
    THEN [jobs EXCEPT ![job_id].map_results = <<file_url>>]
    ELSE jobs

\* an upload that starts a tracker entry for a job that has none
MutLogResultCreates(jobs, job_id, file_url) ==
    IF job_id \in DOMAIN jobs
    THEN [jobs EXCEPT ![job_id].map_results = Append(@, file_url)]
    ELSE [j \in DOMAIN jobs \cup {job_id} |->
             IF j = job_id
             THEN [job_type |-> "sort", total_tasks |-> 0, completed_tasks |-> 0,
                   map_results |-> <<file_url>>]
             ELSE jobs[j]]

\* job_status[job_id]["map_results"].append(file_url), when the job is tracked
LogResult(jobs, job_id, file_url) ==
    IF job_id \in DOMAIN jobs
    THEN [jobs EXCEPT ![job_id].map_results = Append(@, file_url)]
    ELSE jobs

\* save_path = os.path.join(job_results_dir, output_filename)
SavePath(job_id, task_id, filename) ==
    [job_id |-> job_id, output_filename |-> OutputFilename(task_id, filename)]

\* an upload that carries on after a storage error
MutSaveRaisesNever(saved) == FALSE

\* open(save_path, "wb") or shutil.copyfileobj raises: the except clause takes over
SaveRaises(saved) == ~saved

\* what upload answers; saved is FALSE when writing the file raises
upload_task_result_response(job_id, task_id, filename, saved) ==
    IF ~saved
    THEN [status |-> 500, detail |-> "Failed to save file"]
    ELSE [status |-> 200, message |-> "File uploaded successfully",
          saved_path |-> SavePath(job_id, task_id, filename)]

\* the uploads the model follows: at most bound files stored, at most bound
\* results logged for a job
UploadsWithin(bound, job_id, task_id, filename) ==
    /\ Cardinality(DOMAIN results_files \cup {SavePath(job_id, task_id, filename)})
           <= bound
    /\ job_id \in DOMAIN job_status => Len(job_status[job_id].map_results) < bound

upload_task_result(job_id, task_id, filename, content, saved) ==
    LET output_filename == OutputFilename(task_id, filename)
        save_path == SavePath(job_id, task_id, filename)
        file_url == ResultUrl(COORDINATOR_BASE_URL, job_id, output_filename)
    IN  IF SaveRaises(saved)
        THEN UNCHANGED server
        ELSE /\ results_files' = Put(results_files, save_path, content)
             /\ job_status' = LogResult(job_status, job_id, file_url)
             /\ UNCHANGED <<registered_workers, tasks_queue, assigned_tasks, job_dirs,
                            task_uuids, now, enqueued, dispatched, released, job_files>>

-----------------------------------------------------------------------------
(* GET /tasks *)

\* what GET /tasks answers
get_all_tasks_response ==
    [queued_tasks_count |-> Len(tasks_queue),
     assigned_tasks_count |-> Cardinality(DOMAIN assigned_tasks),
     queued_tasks |-> tasks_queue,
     assigned_tasks |-> assigned_tasks,
     job_status |-> job_status]

get_all_tasks == UNCHANGED server

-----------------------------------------------------------------------------
(* The clock *)

\* seconds that pass in one step of the clock: just over one lease
TickSeconds == lease_time + 1

Tick ==
    /\ now + TickSeconds <= MaxTicks * TickSeconds
    /\ now' = now + TickSeconds
    /\ UNCHANGED <<registered_workers, tasks_queue, assigned_tasks, job_status, job_dirs,
                   results_files, task_uuids, enqueued, dispatched, released, job_files>>

-----------------------------------------------------------------------------
(* The requests clients make *)

\* a worker id that register never returned
UnknownWorker == 0
\* a task id that no task carries
UnknownTask == 0
\* a job id that no job carries
UnknownJob == [prefix |-> "sort_map", uuid8 |-> 0]

WorkerArgs == DOMAIN registered_workers \cup {UnknownWorker}
\* release-task is tried on every leased task, on a released one, on a queued one
\* and on an id no task carries
TaskArgs ==
    DOMAIN assigned_tasks \cup released \cup {UnknownTask}
        \cup {tasks_queue[i].task_id : i \in 1..Len(tasks_queue)}
\* uploads go to the upload URL of a leased task, to that of a released task
\* whose job is not (or no longer) tracked, or to a URL that no task carries
UploadArgs ==
    {<<assigned_tasks[t].task.job_id, t>> : t \in DOMAIN assigned_tasks}
        \cup {<<enqueued[i].job_id, enqueued[i].task_id>> :
                  i \in {k \in 1..Len(enqueued) :
                             /\ enqueued[k].task_id \in released
                             /\ enqueued[k].job_id \notin DOMAIN job_status}}
        \cup {<<UnknownJob, UnknownTask>>}
JobTypeArgs == {"sort_map", "sort_reduce", "hashcat_crack"}
FilenameArgs == {"sorted_chunk.txt"}
Contents == {"A"}

\* the files submitted: an empty one and the six lines of the demo data
DemoLines == <<"zebra", "apple", "orange", "banana", "kiwi", "grape">>
Files == {<<>>, DemoLines}
NumChunksArgs == {0, 1, 2}

Next ==
    \/ \E data \in {REGISTER_FORM} : register_worker(data) /\ UNCHANGED clients
    \/ \E w \in WorkerArgs : assign_task(w) /\ UNCHANGED clients
    \/ \E w \in WorkerArgs, t \in TaskArgs : release_task(w, t) /\ UNCHANGED clients
    \/ \E jt \in JobTypeArgs, f \in Files, n \in NumChunksArgs :
          /\ MapTasksWithin(MaxMapTasks, f, n)
          /\ submit_job(jt, f, n)
          /\ UNCHANGED clients
    \/ \E jt \in UploadArgs, fn \in FilenameArgs, c \in Contents, saved \in BOOLEAN :
          /\ UploadsWithin(MaxUploads, jt[1], jt[2], fn)
          /\ upload_task_result(jt[1], jt[2], fn, c, saved)
          /\ UNCHANGED clients
    \/ get_all_tasks /\ UNCHANGED clients
    \/ Tick /\ UNCHANGED clients

Spec == Init /\ [][Next]_vars

-----------------------------------------------------------------------------
(* Queue/lease disjointness *)

Leased == DOMAIN assigned_tasks
Queued == QueueIds(tasks_queue)
EverEnqueued == {enqueued[i].task_id : i \in 1..Len(enqueued)}

\* C1: in every reachable state no task_id is both in the queue and in the lease
\* table: every task ever enqueued is in exactly one of the queue, the lease
\* table and the released (deleted) tasks, and the queue holds it once.
C1_QueueLeaseDisjoint ==
    /\ Queued \cap Leased = {}
    /\ Queued \cap released = {}
    /\ Leased \cap released = {}
    /\ Queued \cup Leased \cup released = EverEnqueued
    /\ Cardinality(Queued) = Len(tasks_queue)

\* a task queued, a task leased and a task released, the queued one a follow-up
\* task that a release enqueued
C1_Witness ==
    /\ Leased # {}
    /\ released # {}
    /\ \E i \in 1..Len(tasks_queue) : tasks_queue[i].payload.job_type = "sort_reduce"

-----------------------------------------------------------------------------
(* FIFO dispatch *)

\* C2: there is no lease expiry, and the tasks get-task has handed out are, in
\* order, the first tasks that were inserted into the queue, the follow-up tasks
\* of releases included.
C2_FifoDispatch ==
    /\ Len(dispatched) <= Len(enqueued)
    /\ \A i \in 1..Len(dispatched) : dispatched[i] = enqueued[i].task_id

\* a follow-up task was enqueued behind a task that was still queued, and both
\* have been handed out since
C2_Witness ==
    \E p \in 2..Len(dispatched) :
        /\ enqueued[p].job_type = "sort_reduce"
        /\ enqueued[p].seen < p - 1

-----------------------------------------------------------------------------
(* Lease ownership *)

\* C3: release_task(w, t) answers 403 iff t is leased to another worker, 404 iff
\* t is not leased and 200 otherwise, whether w is registered or not; after a
\* 200, t is not in the lease table.
C3_LeaseOwnership ==
    /\ [](\A w \in WorkerArgs, t \in TaskArgs :
            LET status == release_task_response(w, t).status
                leased == t \in DOMAIN assigned_tasks
                other == leased /\ assigned_tasks[t].worker_id # w
            IN  /\ status = 403 <=> other
                /\ status = 404 <=> ~leased
                /\ status = 200 <=> (leased /\ ~other))
    /\ [][\A w \in WorkerArgs, t \in TaskArgs :
            (release_task_response(w, t).status = 200 /\ release_task(w, t))
                => t \notin DOMAIN assigned_tasks']_vars

\* a worker has released a task it held; of the task still leased, the other
\* registered worker and an unregistered caller get 403, and 404 for an unknown id
C3_Witness ==
    /\ released # {}
    /\ \E t \in Leased, w \in DOMAIN registered_workers :
          /\ release_task_response(w, t).status = 403
          /\ release_task_response(UnknownWorker, t).status = 403
          /\ release_task_response(assigned_tasks[t].worker_id, t).status = 200
          /\ release_task_response(w, UnknownTask).status = 404

-----------------------------------------------------------------------------
(* Rejected calls *)

\* C4: a rejected call changes nothing: get-task with an unregistered worker_id
\* (404), release-task on a task that is not leased (404) and release-task by a
\* worker that does not hold the lease (403) leave the queue, the lease table,
\* the worker directory and the job tracker as they were.
C4_RejectedCallsChangeNothing ==
    [][/\ \A w \in WorkerArgs :
             (assign_task_response(w).status = 404 /\ assign_task(w))
                 => UNCHANGED coord
       /\ \A w \in WorkerArgs, t \in TaskArgs :
             (release_task_response(w, t).status \in {403, 404} /\ release_task(w, t))
                 => UNCHANGED coord]_vars

\* each rejection can happen: a task leased to one registered worker that the
\* other one, and an unregistered caller, try to release; a released task; a
\* queued task; a job being tracked
C4_Witness ==
    /\ assign_task_response(UnknownWorker).status = 404
    /\ \E t \in Leased, w \in DOMAIN registered_workers :
          release_task_response(w, t).status = 403
    /\ \E t \in released, w \in DOMAIN registered_workers :
          release_task_response(w, t).status = 404
    /\ tasks_queue # <<>>
    /\ job_status # EmptyMap

-----------------------------------------------------------------------------
(* Lease expiry *)

\* C5: at-least-once delivery: a task that get-task has handed out and that no
\* worker has released is back in the queue once its lease period is over; at
\* any time it is released, queued again, or leased with its deadline ahead.
C5_ReturnsWithinLeasePeriod ==
    \A i \in 1..Len(dispatched) :
        LET t == dispatched[i]
        IN  \/ t \in released
            \/ t \in Queued /\ t \notin Leased
            \/ t \in Leased /\ now <= assigned_tasks[t].lease_expires

-----------------------------------------------------------------------------
(* get-task on a non-empty queue *)

\* C6: a successful get-task of worker w removes the head of the queue and
\* nothing else, and creates one lease, for that task id, holding w, the task
\* and a deadline 15 s after the call; the answer carries the same task and
\* deadline; every other lease stays as it was.
C6_GetTaskLeasesHead ==
    [][\A w \in DOMAIN registered_workers :
          (tasks_queue # <<>> /\ assign_task(w)) =>
              LET answer == assign_task_response(w)
                  head == Head(tasks_queue)
                  t == head.task_id
              IN  /\ answer.task = head
                  /\ tasks_queue' = Tail(tasks_queue)
                  /\ t \notin DOMAIN assigned_tasks
                  /\ DOMAIN assigned_tasks' = DOMAIN assigned_tasks \cup {t}
                  /\ assigned_tasks'[t] =
                         [task |-> head, worker_id |-> w, lease_expires |-> now + 15]
                  /\ answer.lease_expires = assigned_tasks'[t].lease_expires
                  /\ \A u \in DOMAIN assigned_tasks :
                         assigned_tasks'[u] = assigned_tasks[u]
                  /\ UNCHANGED <<registered_workers, job_status>>]_vars

\* a task handed out after the clock has moved, while another lease exists and
\* other tasks stay queued
C6_Witness ==
    /\ now > 0
    /\ tasks_queue # <<>>
    /\ \E t, u \in Leased :
          /\ assigned_tasks[t].lease_expires = now + 15
          /\ assigned_tasks[u].lease_expires = 15
          /\ t = dispatched[Len(dispatched)]

-----------------------------------------------------------------------------
(* get-task on an empty queue *)

\* the answer of get-task when there is nothing to hand out
NoTasksAvailable == [status |-> 200, message |-> "No tasks available."]

\* the coordinator has started, no job has been submitted and no get-task answered
FreshlyStarted == Len(enqueued) = 1 /\ dispatched = <<>>

\* C7 as stated: a registered worker's get-task on an empty queue gets the empty
\* result, and so does its first get-task on a freshly started coordinator on
\* which no job has been submitted.
C7_FreshCoordinatorAnswersEmpty ==
    \A w \in DOMAIN registered_workers :
        (tasks_queue = <<>> \/ FreshlyStarted)
            => assign_task_response(w) = NoTasksAvailable

\* C7: a registered worker's get-task on an empty queue gets the empty result,
\* which is no error, and creates no lease; a freshly started coordinator holds
\* the demo task of its start-up code, and that task is what the first get-task
\* of a registered worker gets.
C7_EmptyQueueAnswersEmpty ==
    /\ [](\A w \in DOMAIN registered_workers :
            /\ tasks_queue = <<>> => assign_task_response(w) = NoTasksAvailable
            /\ FreshlyStarted =>
                   /\ tasks_queue = <<demo_task>>
                   /\ assign_task_response(w).status = 200
                   /\ assign_task_response(w).task = demo_task)
    /\ [][\A w \in DOMAIN registered_workers :
            (tasks_queue = <<>> /\ assign_task(w)) => UNCHANGED coord]_vars

\* a registered worker polls a queue that has been drained while a task is leased
C7_Witness ==
    /\ tasks_queue = <<>>
    /\ Leased # {}
    /\ \E w \in DOMAIN registered_workers : assign_task_response(w) = NoTasksAvailable

-----------------------------------------------------------------------------
(* Job counters *)

\* the positions in the history of the tasks of job_type enqueued for job_id
TasksOf(job_id, job_type) ==
    {i \in 1..Len(enqueued) :
        enqueued[i].job_id = job_id /\ enqueued[i].job_type = job_type}

\* C8: for every tracked job completed_tasks <= total_tasks, completed_tasks
\* being the number of map tasks of the job that have been released: a task is
\* counted once.
C8_CompletedAtMostTotal ==
    \A j \in DOMAIN job_status :
        /\ job_status[j].completed_tasks <= job_status[j].total_tasks
        /\ job_status[j].completed_tasks =
               Cardinality({i \in TasksOf(j, "sort_map") :
                               enqueued[i].task_id \in released})
        /\ job_status[j].total_tasks = Cardinality(TasksOf(j, "sort_map"))

\* a tracked job of two map tasks, both of them released
C8_Witness ==
    \E j \in DOMAIN job_status :
        /\ job_status[j].total_tasks = 2
        /\ job_status[j].completed_tasks = 2

-----------------------------------------------------------------------------
(* The reduce stage of a sort job *)

\* the jobs that submit-job created
SortJobs == {j \in job_dirs : j.prefix = "sort_map"}

\* the tasks of job_id that are queued or leased
Pending(job_id, job_type) ==
    {i \in TasksOf(job_id, job_type) : enqueued[i].task_id \in Queued \cup Leased}

\* C9: a sort job gets its sort_reduce task once, from the release-task call
\* that makes completed_tasks equal to total_tasks: there is never more than one,
\* there is one exactly when every map task of the job has been released, none
\* is queued or leased while a map task of the job is, and the step that
\* enqueues it is a release that counts the last map task.
C9_OneReducePerSortJob ==
    /\ [](\A j \in SortJobs :
            LET maps == TasksOf(j, "sort_map")
                reduces == TasksOf(j, "sort_reduce")
            IN  /\ Cardinality(reduces) <= 1
                /\ Cardinality(reduces) = 1 <=>
                       \A i \in maps : enqueued[i].task_id \in released
                /\ Pending(j, "sort_reduce") # {} => Pending(j, "sort_map") = {}
                /\ j \in DOMAIN job_status =>
                       (Cardinality(reduces) = 1 <=>
                            job_status[j].completed_tasks = job_status[j].total_tasks))
    /\ [][\A j \in SortJobs :
            TasksOf(j, "sort_reduce")' # TasksOf(j, "sort_reduce") =>
                /\ released' # released
                /\ j \in DOMAIN job_status /\ j \in DOMAIN job_status'
                /\ job_status[j].completed_tasks + 1 = job_status[j].total_tasks
                /\ job_status'[j].completed_tasks = job_status[j].total_tasks
                /\ Len(tasks_queue') = Len(tasks_queue) + 1
                /\ tasks_queue'[Len(tasks_queue')].job_id = j
                /\ tasks_queue'[Len(tasks_queue')].payload.job_type = "sort_reduce"]_vars

\* a job of two map tasks, both released, whose reduce task has been handed out
C9_Witness ==
    \E j \in SortJobs :
        /\ Cardinality(TasksOf(j, "sort_map")) = 2
        /\ \E i \in TasksOf(j, "sort_reduce") : enqueued[i].task_id \in Leased

\* the sort_reduce tasks that are queued or leased
ReduceTasks ==
    {tasks_queue[i] : i \in {k \in 1..Len(tasks_queue) :
                                 tasks_queue[k].payload.job_type = "sort_reduce"}}
        \cup {assigned_tasks[t].task :
                 t \in {u \in Leased :
                           assigned_tasks[u].task.payload.job_type = "sort_reduce"}}

\* the result URLs of task_id, under the names a worker may give its result file
ResultUrlsOf(job_id, task_id) ==
    {ResultUrl(COORDINATOR_BASE_URL, job_id, OutputFilename(task_id, fn)) :
        fn \in FilenameArgs}

\* C10: the sort_reduce task of a sort job with N map tasks has N input files,
\* keyed chunk_0 .. chunk_{N-1}, with one result URL of each of the N map tasks,
\* whatever uploads, failed executions and releases came before.
C10_ReduceInputsComplete ==
    \A task \in ReduceTasks :
        LET maps == {enqueued[i].task_id : i \in TasksOf(task.job_id, "sort_map")}
            N == Cardinality(maps)
            input_files == task.payload.input_files
        IN  /\ DOMAIN input_files = {ChunkKey(i) : i \in 0..(N - 1)}
            /\ \A t \in maps :
                   Cardinality({k \in DOMAIN input_files :
                                   input_files[k] \in ResultUrlsOf(task.job_id, t)}) = 1

-----------------------------------------------------------------------------
(* The sort of six lines in two chunks *)

\* the sort job of a coordinator that has been given one job, of two map tasks
TheSortJob == CHOOSE j \in SortJobs : TRUE
OneSortJobOfTwo ==
    /\ Cardinality(SortJobs) = 1
    /\ Cardinality(TasksOf(TheSortJob, "sort_map")) = 2

\* the tasks of job_id and job_type that have been released
Released(job_id, job_type) ==
    {i \in TasksOf(job_id, job_type) : enqueued[i].task_id \in released}

\* C11 as stated: on a freshly started coordinator, /tasks reports 2 queued
\* tasks after a six-line sort job is submitted with num_chunks = 2.
C11_FreshSubmissionQueuesTwo ==
    [][(FreshlyStarted /\ submit_job("sort_map", DemoLines, 2))
          => get_all_tasks_response'.queued_tasks_count = 2]_vars

\* C11: on a freshly started coordinator the submission of six lines with
\* num_chunks = 2 leaves 3 tasks queued, the start-up demo task followed by the
\* two sort_map tasks of the job; once both map tasks are released the queue is
\* one sort_reduce task of the job, and once that task is released the queue is
\* empty and the job tracker has no entry for the job.
C11_SortOfSixLinesInTwoChunks ==
    /\ [][(FreshlyStarted /\ submit_job("sort_map", DemoLines, 2)) =>
             /\ get_all_tasks_response'.queued_tasks_count = 3
             /\ tasks_queue'[1] = demo_task
             /\ \A i \in {2, 3} :
                   /\ tasks_queue'[i].payload.job_type = "sort_map"
                   /\ tasks_queue'[i].job_id = FreshJobId("sort_map", job_dirs)
             /\ job_status'[FreshJobId("sort_map", job_dirs)].total_tasks = 2]_vars
    /\ [](OneSortJobOfTwo =>
            LET j == TheSortJob
            IN  /\ (Cardinality(Released(j, "sort_map")) = 2
                       /\ Pending(j, "sort_reduce") \cap
                              {i \in 1..Len(enqueued) : enqueued[i].task_id \in Leased} = {}
                       /\ Released(j, "sort_reduce") = {})
                      => /\ get_all_tasks_response.queued_tasks_count = 1
                         /\ tasks_queue[1].payload.job_type = "sort_reduce"
                         /\ tasks_queue[1].job_id = j
                         /\ j \in DOMAIN get_all_tasks_response.job_status
                /\ Released(j, "sort_reduce") # {}
                      => /\ get_all_tasks_response.queued_tasks_count = 0
                         /\ j \notin DOMAIN get_all_tasks_response.job_status)

\* the scenario has run to its end: the demo task and the two map tasks were
\* handed out, and the reduce task of the job has been released
C11_Witness ==
    /\ OneSortJobOfTwo
    /\ Len(dispatched) = 4
    /\ Released(TheSortJob, "sort_reduce") # {}
    /\ tasks_queue = <<>>

-----------------------------------------------------------------------------
(* The kill-switch of a hash-crack job *)

\* the tasks of job_id in the queue q
QueuedOf(q, job_id) == {i \in 1..Len(q) : q[i].job_id = job_id}

\* C12: a hash-crack job can be submitted (the request of tests/hashcat_test.py
\* is accepted), and whenever a task of a hash-crack job is released while the
\* job's map_results is non-empty, then on return from release-task the job's
\* status is "cracked" and the queue holds no task of that job.
C12_KillSwitch ==
    /\ [](\A f \in Files \ {<<>>}, n \in NumChunksArgs \ {0} :
            submit_job_response("hashcat_crack", f, n).status = 200)
    /\ [][\A w \in WorkerArgs, t \in DOMAIN assigned_tasks :
            LET task == assigned_tasks[t].task
            IN  (/\ release_task_response(w, t).status = 200
                 /\ task.payload.job_type = "hashcat_crack"
                 /\ task.job_id \in DOMAIN job_status
                 /\ job_status[task.job_id].map_results # <<>>
                 /\ release_task(w, t))
                => /\ task.job_id \in DOMAIN job_status'
                   /\ "status" \in DOMAIN job_status'[task.job_id]
                   /\ job_status'[task.job_id].status = "cracked"
                   /\ QueuedOf(tasks_queue', task.job_id) = {}]_vars

-----------------------------------------------------------------------------
(* HashcatPlugin.on_task_complete, applied to a job tracker and a queue *)

\* bound on the runs of the hook for one job
MaxHookRuns == 2

\* a hook that cancels every pending task
MutPurgeJobAll(q, job_id) == <<>>

\* tasks_to_remove = [tid for tid, t in tasks_queue.items() if t.job_id == job_id]
\* for tid in tasks_to_remove: del tasks_queue[tid]
PurgeJob(q, job_id) == SelectSeq(q, LAMBDA t : t.job_id # job_id)

\* a hook that marks the job cracked whether or not a result has come in
MutHashcatOnTaskCompleteAlwaysCracks(task, jobs, q) ==
    IF task.job_id \notin DOMAIN jobs
    THEN [job_status |-> jobs, tasks_queue |-> q]
    ELSE [job_status |->
              [jobs EXCEPT ![task.job_id].completed_tasks = @ + 1,
                           ![task.job_id].status = "cracked",
                           ![task.job_id].cracked_password = "See results"],
          tasks_queue |-> PurgeJob(q, task.job_id)]

\* HashcatPlugin.on_task_complete(task, job_status, tasks_queue, base): the job
\* tracker and the queue it leaves
HashcatOnTaskComplete(task, jobs, q) ==
    LET job_id == task.job_id
    IN  IF job_id \notin DOMAIN jobs
        THEN [job_status |-> jobs, tasks_queue |-> q]
        ELSE LET counted == [jobs EXCEPT ![job_id].completed_tasks = @ + 1]
                 results == counted[job_id].map_results
             IN  IF results # <<>>
                 THEN [job_status |->
                           [counted EXCEPT ![job_id].status = "cracked",
                                           ![job_id].cracked_password = "See results"],
                       tasks_queue |-> PurgeJob(q, job_id)]
                 ELSE [job_status |-> counted, tasks_queue |-> q]

\* the task HashcatPlugin.create_job_tasks builds for a chunk, as submit_job
\* would enqueue it
HashcatTask(task_id, job_id, chunk) ==
    Task(task_id, job_id,
         TaskPayload("hashcat_crack",
                     [wordlist_chunk |->
                          JobFileUrl(COORDINATOR_BASE_URL, job_id, ChunkFile(chunk))],
                     UploadUrl(COORDINATOR_BASE_URL, job_id, task_id),
                     [target_hash |-> "8743b52063cd84097a65d1633f5c74f5",
                      hash_mode |-> "0"]))

\* initial_status of HashcatPlugin.create_job_tasks, with the results uploaded since
HashcatStatus(total_tasks, map_results) ==
    [job_type |-> "hashcat", status |-> "running", cracked_password |-> "None",
     total_tasks |-> total_tasks, completed_tasks |-> 0, map_results |-> map_results]

\* two hash-crack jobs: the first of three chunks, the second of two
HashJob(n) == [prefix |-> "hashcat_crack", uuid8 |-> n]
HookQueueTasks ==
    {HashcatTask(11, HashJob(1), 0), HashcatTask(12, HashJob(1), 1),
     HashcatTask(21, HashJob(2), 0)}
HookLeasedTasks == {HashcatTask(13, HashJob(1), 2), HashcatTask(22, HashJob(2), 1)}
HookQueues ==
    {q \in UNION {[1..n -> HookQueueTasks] : n \in 0..3} :
        \A i, k \in 1..Len(q) : i # k => q[i] # q[k]}
HookStatuses(n, total_tasks) ==
    {HashcatStatus(total_tasks, r) :
        r \in {<<>>, <<ResultUrl(COORDINATOR_BASE_URL, HashJob(n),
                                 OutputFilename(n * 10 + 3, "result.txt"))>>}}
\* the job trackers: each job tracked or not, with or without a result
HookTrackers ==
    {jobs \in UNION {[D -> HookStatuses(1, 3) \cup HookStatuses(2, 2)] :
                        D \in SUBSET {HashJob(1), HashJob(2)}} :
        \A j \in DOMAIN jobs : jobs[j] \in HookStatuses(j.uuid8, 4 - j.uuid8)}

HookInit ==
    /\ registered_workers = Put(EmptyMap, 1, REGISTER_FORM)
    /\ tasks_queue \in HookQueues
    /\ \E L \in SUBSET HookLeasedTasks :
          assigned_tasks = [t \in {task.task_id : task \in L} |->
                               Lease(CHOOSE task \in L : task.task_id = t, 1,
                                     LeaseExpiresAt(0))]
    /\ job_status \in HookTrackers
    /\ job_dirs = {demo_job_id, HashJob(1), HashJob(2)}
    /\ results_files = EmptyMap
    /\ task_uuids = 22
    /\ now = 0
    /\ enqueued = [i \in 1..Len(tasks_queue) |-> Enqueued(tasks_queue[i], <<>>)]
    /\ dispatched = <<>>
    /\ released = {}
    /\ job_files = demo_job_files
    /\ worker = <<>>
    /\ threads = <<>>

\* the hook runs for a task, on the coordinator's job tracker and queue
on_task_complete(task) ==
    LET after == HashcatOnTaskComplete(task, job_status, tasks_queue)
    IN  /\ task.job_id \in DOMAIN job_status =>
               job_status[task.job_id].completed_tasks < MaxHookRuns
        /\ job_status' = after.job_status
        /\ tasks_queue' = after.tasks_queue
        /\ UNCHANGED <<registered_workers, assigned_tasks, job_dirs, results_files,
                       task_uuids, now, enqueued, dispatched, released, job_files>>

HookNext ==
    \E task \in HookQueueTasks \cup HookLeasedTasks :
        on_task_complete(task) /\ UNCHANGED clients

HookSpec == HookInit /\ [][HookNext]_vars

\* C13: the kill-switch cancels only pending tasks of its own job: a run of the
\* hook for a task of job j leaves every lease as it was, leases of j included,
\* and leaves the queued tasks of every other job in the queue in the same
\* order; it removes the queued tasks of j exactly when j is tracked and has
\* results.
C13_KillSwitchPurgesOwnJobOnly ==
    [][\A task \in HookQueueTasks \cup HookLeasedTasks :
          on_task_complete(task) =>
              LET j == task.job_id
                  fires == j \in DOMAIN job_status /\ job_status[j].map_results # <<>>
              IN  /\ assigned_tasks' = assigned_tasks
                  /\ SelectSeq(tasks_queue', LAMBDA t : t.job_id # j)
                         = SelectSeq(tasks_queue, LAMBDA t : t.job_id # j)
                  /\ fires => QueuedOf(tasks_queue', j) = {}
                  /\ ~fires => tasks_queue' = tasks_queue]_vars

\* the kill-switch of the first job has fired: its queued tasks are gone, a task
\* of the second job is still queued, and a task of the first job is still leased
C13_Witness ==
    /\ HashJob(1) \in DOMAIN job_status
    /\ "status" \in DOMAIN job_status[HashJob(1)]
    /\ job_status[HashJob(1)].status = "cracked"
    /\ \E i \in 1..Len(enqueued) :
          enqueued[i].job_id = HashJob(1) /\ enqueued[i].task_id \notin Queued
    /\ QueuedOf(tasks_queue, HashJob(2)) # {}
    /\ \E t \in Leased : assigned_tasks[t].task.job_id = HashJob(1)

-----------------------------------------------------------------------------
(* Uploads for one sort job *)

\* bound on the files stored and on the results logged for a job
MaxLanded == 3

\* the sort job of six lines in two chunks, submitted to a freshly started
\* coordinator, and its two map tasks
UploadJob == FreshJobId("sort_map", {demo_job_id})
UploadJobCreated ==
    SortMapCreateJobTasks(UploadJob, COORDINATOR_BASE_URL, DemoLines, 2, demo_task_id)
UploadJobTasks ==
    SubmittedTasks(UploadJob, UploadJobCreated.task_payloads,
                   demo_task_id + UploadJobCreated.uuids)

\* the coordinator after one worker has registered, the job has been submitted
\* and the worker has been handed the demo task and the two map tasks
UploadInit ==
    /\ registered_workers = Put(EmptyMap, FreshWorkerId(EmptyMap), REGISTER_FORM)
    /\ tasks_queue = <<>>
    /\ assigned_tasks =
           [t \in {demo_task_id} \cup {UploadJobTasks[i].task_id : i \in 1..2} |->
               Lease(IF t = demo_task_id THEN demo_task
                     ELSE UploadJobTasks[CHOOSE i \in 1..2 : UploadJobTasks[i].task_id = t],
                     FreshWorkerId(EmptyMap), LeaseExpiresAt(0))]
    /\ job_status = Put(EmptyMap, UploadJob, UploadJobCreated.initial_status)
    /\ job_dirs = {demo_job_id, UploadJob}
    /\ results_files = EmptyMap
    /\ task_uuids = demo_task_id + UploadJobCreated.uuids + 2
    /\ now = 0
    /\ enqueued = <<Enqueued(demo_task, <<>>)>> \o
                      [i \in 1..2 |-> Enqueued(UploadJobTasks[i], <<>>)]
    /\ dispatched = <<demo_task_id>> \o [i \in 1..2 |-> UploadJobTasks[i].task_id]
    /\ released = {}
    /\ job_files = WriteJobFiles(demo_job_files, UploadJob, UploadJobCreated.files)
    /\ worker = <<>>
    /\ threads = <<>>

\* the contents workers upload
UploadContents == {"A", "B"}

UploadNext ==
    \/ \E jt \in UploadArgs, fn \in FilenameArgs, c \in UploadContents, saved \in BOOLEAN :
          /\ UploadsWithin(MaxLanded, jt[1], jt[2], fn)
          /\ upload_task_result(jt[1], jt[2], fn, c, saved)
          /\ UNCHANGED clients
    \/ \E w \in WorkerArgs : assign_task(w) /\ UNCHANGED clients
    \/ \E w \in WorkerArgs, t \in TaskArgs : release_task(w, t) /\ UNCHANGED clients

UploadSpec == UploadInit /\ [][UploadNext]_vars

\* the number of entries of seq that are x
Count(seq, x) == Cardinality({i \in 1..Len(seq) : seq[i] = x})

\* the URL that an upload for task_id logs
LoggedUrl(job_id, task_id, filename) ==
    ResultUrl(COORDINATOR_BASE_URL, job_id, OutputFilename(task_id, filename))

\* C15: for two uploads for distinct tasks of one live job, both URLs are in
\* the job's map_results afterwards, and as a multiset map_results is the same
\* whichever upload lands first; an upload that lands appends its URL.
C15_UploadOrderIndependent ==
    /\ [](\A j \in DOMAIN job_status :
            \A t1, t2 \in {u[2] : u \in {v \in UploadArgs : v[1] = j}} :
               \A f1, f2 \in FilenameArgs :
                  LET u1 == LoggedUrl(j, t1, f1)
                      u2 == LoggedUrl(j, t2, f2)
                      first == LogResult(LogResult(job_status, j, u1), j, u2)[j].map_results
                      second == LogResult(LogResult(job_status, j, u2), j, u1)[j].map_results
                      before == job_status[j].map_results
                  IN  t1 # t2 =>
                         /\ \A u \in {u1, u2} :
                               /\ Count(first, u) = Count(before, u) + 1
                               /\ Count(second, u) = Count(before, u) + 1
                         /\ \A i \in 1..Len(first) :
                               Count(first, first[i]) = Count(second, first[i])
                         /\ Len(first) = Len(second))
    /\ [][\A jt \in UploadArgs, fn \in FilenameArgs, c \in UploadContents :
            (jt[1] \in DOMAIN job_status /\ upload_task_result(jt[1], jt[2], fn, c, TRUE))
                => job_status'[jt[1]].map_results =
                       Append(job_status[jt[1]].map_results,
                              LoggedUrl(jt[1], jt[2], fn))]_vars

\* the uploads of the two map tasks have landed, second task first
C15_Witness ==
    /\ UploadJob \in DOMAIN job_status
    /\ job_status[UploadJob].map_results =
           <<LoggedUrl(UploadJob, UploadJobTasks[2].task_id, "sorted_chunk.txt"),
             LoggedUrl(UploadJob, UploadJobTasks[1].task_id, "sorted_chunk.txt")>>

-----------------------------------------------------------------------------
(* Repeated uploads *)

\* C16: an upload for a (job_id, task_id, filename) that has been uploaded
\* before leaves the coordinator as a single upload of the later content would:
\* the one stored file holds the later content, no file is added and the job
\* tracker, map_results included, is as it was.
C16_UploadIdempotent ==
    [][\A jt \in UploadArgs, fn \in FilenameArgs, c \in UploadContents :
          (/\ SavePath(jt[1], jt[2], fn) \in DOMAIN results_files
           /\ upload_task_result(jt[1], jt[2], fn, c, TRUE))
              => /\ DOMAIN results_files' = DOMAIN results_files
                 /\ results_files'[SavePath(jt[1], jt[2], fn)] = c
                 /\ job_status' = job_status]_vars

-----------------------------------------------------------------------------
(* Uploads and the job tracker *)

\* C17: an upload that lands appends its URL to the map_results of its job
\* exactly when the job is tracked at that time; for a job that is not tracked
\* (never tracked, or finalised by the release of its sort_reduce task) the file
\* is stored all the same, no tracker entry is created and no map_results
\* changes; no upload changes the queue, the lease table or the worker directory.
C17_UploadLogsForLiveJobOnly ==
    [][\A jt \in UploadArgs, fn \in FilenameArgs, c \in UploadContents :
          upload_task_result(jt[1], jt[2], fn, c, TRUE) =>
              /\ results_files' = Put(results_files, SavePath(jt[1], jt[2], fn), c)
              /\ DOMAIN job_status' = DOMAIN job_status
              /\ \A j \in DOMAIN job_status :
                    job_status'[j] =
                        IF j = jt[1]
                        THEN [job_status[j] EXCEPT
                                 !.map_results = Append(@, LoggedUrl(jt[1], jt[2], fn))]
                        ELSE job_status[j]
              /\ UNCHANGED <<tasks_queue, assigned_tasks, registered_workers>>]_vars

\* the job has been finalised by the release of its reduce task, and files are
\* stored for both of its map tasks and for the demo job, which was never tracked
C17_Witness ==
    /\ UploadJob \notin DOMAIN job_status
    /\ Released(UploadJob, "sort_reduce") # {}
    /\ \A i \in 1..2 :
          SavePath(UploadJob, UploadJobTasks[i].task_id, "sorted_chunk.txt")
              \in DOMAIN results_files
    /\ SavePath(demo_job_id, demo_task_id, "sorted_chunk.txt") \in DOMAIN results_files

-----------------------------------------------------------------------------
(* Failed submissions *)

\* a job type that no plugin carries
UnknownJobType == "no_such_job"

\* C18: a submit-job that fails (a job type that cannot create jobs, or a
\* plugin whose tasking raises) enqueues no task and stores no tracker entry:
\* queue, lease table and job tracker are as before, and no job directory is
\* left behind.
C18_FailedSubmissionLeavesNothing ==
    [][\/ UNCHANGED <<tasks_queue, assigned_tasks, job_status, job_dirs,
                      registered_workers>>
       \/ \A jt \in JobTypeArgs, f \in Files, n \in NumChunksArgs :
             ~(submit_job_response(jt, f, n).status # 200 /\ submit_job(jt, f, n))]_vars

\* a coordinator with tasks queued and leased and a job tracked, on which each
\* kind of submission fails: an empty file, num_chunks = 0, a follow-up stage
C18_Witness ==
    /\ tasks_queue # <<>> /\ Leased # {} /\ job_status # EmptyMap
    /\ submit_job_response("sort_map", <<>>, 2).status = 500
    /\ submit_job_response("sort_map", DemoLines, 0).status = 500
    /\ submit_job_response("sort_reduce", DemoLines, 2).status = 404
    /\ submit_job_response("hashcat_crack", DemoLines, 2).status = 404

\* C19: submit-job tells its failures apart: 404 for a job type that is not
\* known at all, 400 for a job type whose plugin is a follow-up stage only
\* (sort_reduce), 400 for a submission the plugin rejects, and never 500.
C19_SubmissionFailureKinds ==
    \A f \in Files, n \in NumChunksArgs :
        /\ submit_job_response(UnknownJobType, f, n).status = 404
        /\ submit_job_response("sort_reduce", f, n).status = 400
        /\ submit_job_response("sort_map", f, n).status \in {200, 400}

-----------------------------------------------------------------------------
(* Self-routing upload URLs *)

\* the tasks in the queue and in the lease table
LiveTasks ==
    {tasks_queue[i] : i \in 1..Len(tasks_queue)}
        \cup {assigned_tasks[t].task : t \in Leased}

\* C20: every queued or leased task, whether submit-job, the job chaining or
\* the start-up code created it, has the output_path {base}/upload/{job_id}/
\* {task_id} of its own job_id and task_id, and no two of these tasks share a
\* task_id or an output_path.
C20_OutputPathSelfRouting ==
    /\ \A task \in LiveTasks :
          task.payload.output_path =
              [base |-> COORDINATOR_BASE_URL, space |-> "upload",
               job_id |-> task.job_id, task_id |-> task.task_id]
    /\ \A a, b \in LiveTasks :
          (a.task_id = b.task_id \/ a.payload.output_path = b.payload.output_path)
              => a = b
    /\ \A t \in Leased : assigned_tasks[t].task.task_id = t

\* the demo task, a sort_map task and a sort_reduce task are queued or leased
\* at the same time
C20_Witness ==
    \A jt \in {"hashcat_demo", "sort_map", "sort_reduce"} :
        \E task \in LiveTasks : task.payload.job_type = jt

-----------------------------------------------------------------------------
(* The sort plugins on the worker *)

\* the lines the model sorts, in the order of Python's string comparison
LineOrder == <<"apple", "banana", "grape", "kiwi", "orange", "zebra">>
Rank(line) == CHOOSE i \in 1..Len(LineOrder) : LineOrder[i] = line

RECURSIVE Insert(_, _)
\* line put into a sorted list, after the lines that do not compare greater
Insert(sorted, line) ==
    IF sorted = <<>> THEN <<line>>
    ELSE IF Rank(line) < Rank(Head(sorted)) THEN <<line>> \o sorted
    ELSE <<Head(sorted)>> \o Insert(Tail(sorted), line)

RECURSIVE SortLines(_)
\* lines.sort()
SortLines(lines) ==
    IF lines = <<>> THEN <<>>
    ELSE Insert(SortLines(SubSeq(lines, 1, Len(lines) - 1)), lines[Len(lines)])

RECURSIVE Merge(_)
\* heapq.merge(*open_files): the smallest head line next, the earlier file on a tie
Merge(chunks) ==
    LET nonempty == {i \in 1..Len(chunks) : chunks[i] # <<>>}
    IN  IF nonempty = {} THEN <<>>
        ELSE LET i == CHOOSE i \in nonempty : \A j \in nonempty :
                          \/ Rank(Head(chunks[i])) < Rank(Head(chunks[j]))
                          \/ Rank(Head(chunks[i])) = Rank(Head(chunks[j])) /\ i <= j
             IN  <<Head(chunks[i])>> \o Merge([chunks EXCEPT ![i] = Tail(@)])

\* the entries of a dict of input files in insertion order: the order in which the
\* coordinator wrote them in the payload
InputOrder ==
    <<"hashes", "wordlist", "data", "chunk_0", "chunk_1", "chunk_2", "chunk_3",
      "chunk_4", "chunk_5">>
InputNames(input_files) == SelectSeq(InputOrder, LAMBDA name : name \in DOMAIN input_files)

\* what a plugin's execute_task returns, and what it wrote at result_path
Executed(success, result_path, content) ==
    [success |-> success, result_path |-> result_path, content |-> content]

\* SortMapPlugin.execute_task, with _execute_map
SortMapExecuteTask(local_input_files) ==
    IF "data" \in DOMAIN local_input_files
    THEN Executed(TRUE, "sorted_chunk.txt", SortLines(local_input_files["data"]))
    ELSE Executed(FALSE, "", <<>>)

\* SortReducePlugin.execute_task, with _execute_reduce
SortReduceExecuteTask(local_input_files) ==
    LET names == InputNames(local_input_files)
        input_chunks == [i \in 1..Len(names) |-> local_input_files[names[i]]]
    IN  IF input_chunks = <<>>
        THEN Executed(FALSE, "", <<>>)
        ELSE Executed(TRUE, "FINAL_SORTED.txt", Merge(input_chunks))

\* the parameters execute_task declares, none of them with a default
ExecuteTaskParams(job_type) ==
    IF job_type = "sort_map"
    THEN {"local_input_files", "local_output_dir", "params"}
    ELSE {"local_input_files", "local_output_dir"}

-----------------------------------------------------------------------------
(* The worker runtime (core/worker/main.py) *)

\* bound on the worker processes running
MaxWorkerProcs == 1

\* the plugins register_plugins puts in the worker's registry
PLUGIN_REGISTRY == {"sort_map", "sort_reduce"}

\* the keyword arguments process_task passes to execute_task
ExecuteTaskArgs == {"local_input_files", "local_output_dir"}

\* a call binds when every declared parameter gets an argument and no argument
\* is left over; Python raises TypeError otherwise
Binds(params, args) == params = args

\* local_result_path after step 3 of process_task, whether a file is there, and
\* what is in it
Ran(outcome, local_result_path, exists, content) ==
    [outcome |-> outcome, local_result_path |-> local_result_path,
     exists |-> exists, content |-> content]

\* step 3 of process_task: the plugin registered for job_type, the legacy demo
\* branch, or nothing
RunTask(job_type, local_input_files) ==
    IF job_type \in PLUGIN_REGISTRY
    THEN IF ~Binds(ExecuteTaskParams(job_type), ExecuteTaskArgs)
         THEN Ran("exception", "", FALSE, <<>>)
         ELSE LET executed == IF job_type = "sort_map"
                              THEN SortMapExecuteTask(local_input_files)
                              ELSE SortReduceExecuteTask(local_input_files)
              IN  IF executed.success
                  THEN Ran("ok", executed.result_path, TRUE, executed.content)
                  ELSE Ran("failed", "", FALSE, <<>>)
    ELSE IF job_type = "hashcat_demo"
    THEN Ran("legacy", "demo_result.pot", TRUE,
             <<"8743b52063cd84097a65d1633f5c74f5:hashcat">>)
    ELSE Ran("unknown", "", FALSE, <<>>)

\* a worker that uploads whatever step 3 left
MutShouldUploadAlways(local_result_path, exists) == TRUE

\* if local_result_path and os.path.exists(local_result_path)
ShouldUpload(local_result_path, exists) == local_result_path # "" /\ exists

\* the file a download URL of the coordinator serves, in a sequence that is empty
\* when there is no such file
Served(url) ==
    IF url.space = "data/jobs"
    THEN IF JobFile(url.job_id, url.filename) \in DOMAIN job_files
         THEN <<job_files[JobFile(url.job_id, url.filename)]>> ELSE <<>>
    ELSE LET path == [job_id |-> url.job_id, output_filename |-> url.output_filename]
         IN  IF path \in DOMAIN results_files THEN <<results_files[path]>> ELSE <<>>

\* a request the worker has made for the task it holds
Call(op, task_id) == [op |-> op, task_id |-> task_id]

\* a worker process that has not registered yet (Worker_id = ""); calls and
\* aborted are history: the requests made for the task held, and the ids of the
\* tasks given up because a download failed
WorkerStart ==
    [pc |-> "register", Worker_id |-> 0, task |-> <<>>, todo |-> <<>>,
     local_input_files |-> EmptyMap, download_success |-> TRUE,
     ran |-> Ran("none", "", FALSE, <<>>), calls |-> <<>>, aborted |-> {}]

\* process_task entered with the task get_task returned
Received(w, task) ==
    [w EXCEPT !.pc = IF InputNames(task.payload.input_files) = <<>>
                     THEN "execute" ELSE "download",
              !.task = <<task>>,
              !.todo = InputNames(task.payload.input_files),
              !.local_input_files = EmptyMap,
              !.download_success = TRUE,
              !.ran = Ran("none", "", FALSE, <<>>),
              !.calls = <<>>]

\* main_loop: register_worker()
worker_register(k) ==
    /\ worker[k].pc = "register"
    /\ register_worker(REGISTER_FORM)
    /\ worker' = [worker EXCEPT ![k].pc = "poll",
                                ![k].Worker_id = FreshWorkerId(registered_workers)]
    /\ UNCHANGED threads

\* main_loop: get_task(), then process_task when a task came back, the sleep
\* otherwise
worker_get_task(k) ==
    LET w == worker[k]
        response_data == assign_task_response(w.Worker_id)
    IN  /\ w.pc = "poll"
        /\ assign_task(w.Worker_id)
        /\ worker' = IF "task" \in DOMAIN response_data
                     THEN [worker EXCEPT ![k] = Received(w, response_data.task)]
                     ELSE worker
        /\ UNCHANGED threads

\* step 2 of process_task, one input file: download_file succeeds when the
\* coordinator is reached and serves the file; a failure ends process_task
process_task_download(k) ==
    LET w == worker[k]
        name == Head(w.todo)
        served == Served(w.task[1].payload.input_files[name])
    IN  /\ w.pc = "download"
        /\ \E reached \in BOOLEAN :
              worker' = [worker EXCEPT ![k] =
                  IF reached /\ served # <<>>
                  THEN [w EXCEPT !.local_input_files = Put(@, name, served[1]),
                                 !.todo = Tail(@),
                                 !.pc = IF Tail(w.todo) = <<>>
                                        THEN "execute" ELSE "download"]
                  ELSE [w EXCEPT !.download_success = FALSE, !.pc = "release",
                                 !.aborted = @ \cup {w.task[1].task_id}]]
        /\ UNCHANGED <<server, threads>>

\* step 3 of process_task
process_task_execute(k) ==
    LET w == worker[k]
        ran == RunTask(w.task[1].payload.job_type, w.local_input_files)
    IN  /\ w.pc = "execute"
        /\ worker' = [worker EXCEPT ![k] =
               [w EXCEPT !.ran = ran,
                         !.pc = IF ShouldUpload(ran.local_result_path, ran.exists)
                                THEN "upload" ELSE "release"]]
        /\ UNCHANGED <<server, threads>>

\* step 4 of process_task: upload_file(upload_url, local_result_path); whether
\* the coordinator stored the file makes no difference to the worker
process_task_upload(k) ==
    LET w == worker[k]
        upload_url == w.task[1].payload.output_path
    IN  /\ w.pc = "upload"
        /\ \E saved \in BOOLEAN :
              upload_task_result(upload_url.job_id, upload_url.task_id,
                                 w.ran.local_result_path, w.ran.content, saved)
        /\ worker' = [worker EXCEPT ![k] =
               [w EXCEPT !.calls = Append(@, Call("upload", upload_url.task_id)),
                         !.pc = "release"]]
        /\ UNCHANGED threads

\* main_loop: release_task(task_object['task_id']), after process_task has
\* returned, then the sleep before the next poll
worker_release_task(k) ==
    LET w == worker[k]
    IN  /\ w.pc = "release"
        /\ release_task(w.Worker_id, w.task[1].task_id)
        /\ worker' = [worker EXCEPT ![k] =
               [w EXCEPT !.calls = Append(@, Call("release", w.task[1].task_id)),
                         !.pc = "poll"]]
        /\ UNCHANGED threads

\* the sorted chunks a client of the upload endpoint sends
SortedChunks == {SortLines(SubSeq(DemoLines, 1, 4))}

WorkerInit ==
    /\ ServerInit
    /\ worker = [k \in 1..MaxWorkerProcs |-> WorkerStart]
    /\ threads = <<>>

WorkerNext ==
    \/ \E k \in DOMAIN worker : worker_register(k)
    \/ \E k \in DOMAIN worker : worker_get_task(k)
    \/ \E k \in DOMAIN worker : process_task_download(k)
    \/ \E k \in DOMAIN worker : process_task_execute(k)
    \/ \E k \in DOMAIN worker : process_task_upload(k)
    \/ \E k \in DOMAIN worker : worker_release_task(k)
    \/ \E f \in Files, n \in NumChunksArgs :
          /\ MapTasksWithin(MaxMapTasks, f, n)
          /\ submit_job("sort_map", f, n)
          /\ UNCHANGED clients
    \/ \E jt \in UploadArgs, fn \in FilenameArgs, c \in SortedChunks :
          /\ UploadsWithin(MaxLanded, jt[1], jt[2], fn)
          /\ upload_task_result(jt[1], jt[2], fn, c, TRUE)
          /\ UNCHANGED clients

WorkerSpec == WorkerInit /\ [][WorkerNext]_vars

-----------------------------------------------------------------------------
(* The worker and a task whose input cannot be downloaded *)

\* the task worker k holds, or held last
Held(k) == worker[k].task[1]

\* the requests of kind op worker k has made for the task it holds
CallsOf(k, op) == SelectSeq(worker[k].calls, LAMBDA c : c.op = op)

\* C21: when the download of an input file of a received task fails, the worker
\* neither uploads a result nor calls release_task for that task, and the task
\* stays in the coordinator's lease table.
C21_DownloadFailureKeepsLease ==
    \A k \in DOMAIN worker :
        (worker[k].task # <<>> /\ ~worker[k].download_success) =>
            /\ worker[k].calls = <<>>
            /\ Held(k).task_id \in DOMAIN assigned_tasks

-----------------------------------------------------------------------------
(* The worker and a task whose inputs were downloaded *)

\* C22, as stated: a worker uploads for a task only when the plugin returned ok.
C22_UploadOnlyWhenPluginOk ==
    \A k \in DOMAIN worker :
        (worker[k].task # <<>> /\ worker[k].download_success
             /\ CallsOf(k, "upload") # <<>>)
            => worker[k].ran.outcome = "ok"

\* C22: for a task whose inputs were downloaded, the worker uploads to the task's
\* output_path only when the plugin returned ok with a non-empty result_path that
\* exists, or when the task is a hashcat_demo task (the built-in branch, which
\* always writes a result); nothing is uploaded after a plugin that failed or
\* raised.  In every case release_task is called exactly once for the task, after
\* the upload if there is one, and before the worker polls again.
C22_UploadThenReleaseOnce ==
    \A k \in DOMAIN worker :
        (worker[k].task # <<>> /\ worker[k].download_success) =>
            LET w == worker[k]
                upload == Call("upload", Held(k).payload.output_path.task_id)
                release == Call("release", Held(k).task_id)
            IN  /\ CallsOf(k, "upload") # <<>> =>
                       /\ \/ w.ran.outcome = "ok"
                          \/ w.ran.outcome = "legacy"
                               /\ Held(k).payload.job_type = "hashcat_demo"
                       /\ w.ran.local_result_path # ""
                       /\ w.ran.exists
                /\ w.ran.outcome \in {"failed", "exception", "unknown"} =>
                       CallsOf(k, "upload") = <<>>
                /\ w.pc \in {"download", "execute", "upload"} => w.calls = <<>>
                /\ w.pc = "release" => w.calls \in {<<>>, <<upload>>}
                /\ w.pc = "poll" => w.calls \in {<<release>>, <<upload, release>>}

\* the worker has run the reduce plugin on a downloaded chunk, uploaded the merged
\* file and released the task; it is back at polling
C22_Witness ==
    \E k \in DOMAIN worker :
        /\ worker[k].pc = "poll"
        /\ worker[k].task # <<>>
        /\ worker[k].download_success
        /\ worker[k].ran.outcome = "ok"
        /\ Held(k).payload.job_type = "sort_reduce"
        /\ Len(worker[k].calls) = 2
        /\ Held(k).task_id \in released

-----------------------------------------------------------------------------
(* The distributed sort, end to end *)

\* the sort_reduce tasks that have been released
ReducesReleased ==
    {i \in 1..Len(enqueued) :
        enqueued[i].job_type = "sort_reduce" /\ enqueued[i].task_id \in released}

\* the tasks of job_id that some worker gave up because a download failed
AbortedOf(job_id) ==
    {i \in 1..Len(enqueued) :
        /\ enqueued[i].job_id = job_id
        /\ \E k \in DOMAIN worker : enqueued[i].task_id \in worker[k].aborted}

\* C23: once every task of a sort job has had its inputs downloaded and the
\* sort_reduce task has been executed and released, the results hold a final
\* artifact of that task whose lines are the submitted file's lines in sorted
\* order.
C23_SortRoundTrip ==
    \A i \in ReducesReleased :
        AbortedOf(enqueued[i].job_id) = {} =>
            \E path \in DOMAIN results_files :
                /\ path.job_id = enqueued[i].job_id
                /\ path.output_filename.task_id = enqueued[i].task_id
                /\ results_files[path] =
                       SortLines(job_files[JobFile(enqueued[i].job_id,
                                                   UnsortedFilename(SubmittedFilename))])

-----------------------------------------------------------------------------
(* Tasks and the job tracker *)

\* the jobs whose tracker entry has been removed
Finalized == {j \in SortJobs : j \notin DOMAIN job_status}

\* C24: every task in the queue or the lease table has the job_id of a job that
\* the job tracker holds, or belongs to the start-up demo job, which is kept
\* without a tracker entry; and when a step removes the tracker entry of a sort
\* job, no task of that job is queued or leased after it.
C24_LiveTasksHaveLiveJobs ==
    /\ [](\A task \in LiveTasks :
            task.job_id \in DOMAIN job_status \/ task.job_id = demo_job_id)
    /\ [][\A j \in DOMAIN job_status :
            j \notin DOMAIN job_status' =>
                /\ QueuedOf(tasks_queue', j) = {}
                /\ \A t \in DOMAIN assigned_tasks' : assigned_tasks'[t].task.job_id # j]_vars

\* the tracker entry of one sort job has been removed while a task of another
\* sort job is leased
C24_Witness ==
    /\ Finalized # {}
    /\ \E t \in Leased : assigned_tasks[t].task.payload.job_type = "sort_map"

-----------------------------------------------------------------------------
(* Released tasks *)

\* C25: a released task is terminal: it is neither queued nor leased ever
\* again, every release-task call for it, by any worker, is answered 404, and
\* such a call changes nothing: the completion handling does not run and
\* completed_tasks is not incremented a second time.
C25_ReleasedIsTerminal ==
    /\ [](\A t \in released :
            /\ t \notin Queued
            /\ t \notin Leased
            /\ \A w \in WorkerArgs : release_task_response(w, t).status = 404)
    /\ [][\A w \in WorkerArgs, t \in released :
            release_task(w, t) => UNCHANGED server]_vars

\* the first map task of a two-task sort job has been released and counted, the
\* second one is leased
C25_Witness ==
    \E j \in DOMAIN job_status :
        /\ job_status[j].total_tasks = 2
        /\ job_status[j].completed_tasks = 1
        /\ Released(j, "sort_map") # {}
        /\ \E t \in Leased : assigned_tasks[t].task.job_id = j

-----------------------------------------------------------------------------
(* The handlers of get-task and release-task run by concurrent request threads *)

(***************************************************************************)
(* assign_task and release_task are plain `def` handlers, which the        *)
(* framework runs in the threads of a pool: two requests that arrive       *)
(* together are served by two threads, and the interpreter may switch      *)
(* between them after any statement (the handlers take no lock).  Here     *)
(* each thread serves the requests of one worker, a statement of the       *)
(* handler at a time; pc names the line of the statement to run next.      *)
(* `x += 1` on a dict entry is a read followed by a write.                 *)
(***************************************************************************)

\* bound on the request threads, each serving a worker of its own
MaxThreads == 2

\* a thread between two requests of worker_id; held is the task the worker was
\* handed and has yet to release, status the answer to its last request
ThreadIdle(worker_id) ==
    [pc |-> "idle", worker_id |-> worker_id, request |-> "none", status |-> 0,
     task_id |-> 0, task |-> <<>>, job |-> <<>>, detached |-> <<>>, loaded |-> 0,
     held |-> <<>>]

\* the handler returns or raises: the answer goes out and its locals are gone
Answered(th, status, held) ==
    [th EXCEPT !.pc = "idle", !.status = status, !.task_id = 0, !.task = <<>>,
               !.job = <<>>, !.detached = <<>>, !.loaded = 0, !.held = held]

\* current_job, the dict object bound at line 150: the tracker's entry, or the
\* object itself once another thread has deleted the entry
CurrentJob(th) ==
    IF th.detached # <<>> THEN th.detached[1] ELSE job_status[th.job[1]]

\* the threads after a write to the completed_tasks of the object th holds, when
\* the tracker no longer holds it
WriteDetached(th, i, value, pc) ==
    [k \in DOMAIN threads |->
        IF k = i
        THEN [th EXCEPT !.pc = pc, !.detached = <<[@[1] EXCEPT !.completed_tasks = value]>>]
        ELSE IF threads[k].job = th.job /\ threads[k].detached # <<>>
        THEN [threads[k] EXCEPT !.detached = <<[@[1] EXCEPT !.completed_tasks = value]>>]
        ELSE threads[k]]

\* the threads after thread i has run del job_status[job_id] and returned: the
\* threads that hold the object keep it
DeletedJob(th, i, job_id) ==
    [k \in DOMAIN threads |->
        IF k = i THEN Answered(th, 200, <<>>)
        ELSE IF threads[k].job = <<job_id>> /\ threads[k].detached = <<>>
        THEN [threads[k] EXCEPT !.detached = <<job_status[job_id]>>]
        ELSE threads[k]]

\* a worker polls: the request enters assign_task (line 111)
assign_task_enter(i) ==
    LET th == threads[i]
    IN  /\ th.pc = "idle"
        /\ th.held = <<>>
        /\ threads' = [threads EXCEPT ![i] =
               IF th.worker_id \notin DOMAIN registered_workers
               THEN [Answered(th, 404, <<>>) EXCEPT !.request = "get_task"]
               ELSE [th EXCEPT !.pc = "l113", !.request = "get_task", !.status = 0]]
        /\ UNCHANGED <<server, worker>>

\* if not tasks_queue: return {"message": "No tasks available."}
assign_task_l113(i) ==
    LET th == threads[i]
    IN  /\ th.pc = "l113"
        /\ threads' = [threads EXCEPT ![i] =
               IF tasks_queue = <<>> THEN Answered(th, 200, <<>>)
               ELSE [th EXCEPT !.pc = "l116"]]
        /\ UNCHANGED <<server, worker>>

\* task_id, task = next(iter(tasks_queue.items())): StopIteration on an empty dict
assign_task_l116(i) ==
    LET th == threads[i]
    IN  /\ th.pc = "l116"
        /\ threads' = [threads EXCEPT ![i] =
               IF tasks_queue = <<>> THEN Answered(th, 500, <<>>)
               ELSE [th EXCEPT !.pc = "l117", !.task = <<NextTask(tasks_queue)>>,
                               !.task_id = NextTask(tasks_queue).task_id]]
        /\ UNCHANGED <<server, worker>>

\* del tasks_queue[task_id]: KeyError when the key is gone
assign_task_l117(i) ==
    LET th == threads[i]
    IN  /\ th.pc = "l117"
        /\ IF th.task_id \notin QueueIds(tasks_queue)
           THEN /\ threads' = [threads EXCEPT ![i] = Answered(th, 500, <<>>)]
                /\ UNCHANGED tasks_queue
           ELSE /\ tasks_queue' = QueueDel(tasks_queue, th.task_id)
                /\ threads' = [threads EXCEPT ![i].pc = "l119"]
        /\ UNCHANGED <<registered_workers, assigned_tasks, job_status, job_dirs,
                       results_files, task_uuids, now, enqueued, dispatched, released,
                       job_files, worker>>

\* assigned_tasks[task_id] = {...}; return {"task": task, "lease_expires": ...}
assign_task_l119(i) ==
    LET th == threads[i]
    IN  /\ th.pc = "l119"
        /\ assigned_tasks' = Put(assigned_tasks, th.task_id,
                                 Lease(th.task[1], th.worker_id, LeaseExpiresAt(now)))
        /\ dispatched' = Append(dispatched, th.task_id)
        /\ threads' = [threads EXCEPT ![i] = Answered(th, 200, th.task)]
        /\ UNCHANGED <<registered_workers, tasks_queue, job_status, job_dirs,
                       results_files, task_uuids, now, enqueued, released, job_files,
                       worker>>

\* a worker is done with the task it holds: the request enters release_task
\* (line 132)
release_task_enter(i) ==
    LET th == threads[i]
        task_id == th.held[1].task_id
    IN  /\ th.pc = "idle"
        /\ th.held # <<>>
        /\ threads' = [threads EXCEPT ![i] =
               IF ReleaseStatus(assigned_tasks, th.worker_id, task_id) = 404
               THEN [Answered(th, 404, <<>>) EXCEPT !.request = "release_task"]
               ELSE [th EXCEPT !.pc = "l135", !.request = "release_task", !.status = 0,
                               !.task_id = task_id, !.held = <<>>]]
        /\ UNCHANGED <<server, worker>>

\* assigned_task_info = assigned_tasks[task_id] (KeyError when the key is gone),
\* the owner check, task_object, job_id, task_job_type
release_task_l135(i) ==
    LET th == threads[i]
        status == ReleaseStatus(assigned_tasks, th.worker_id, th.task_id)
    IN  /\ th.pc = "l135"
        /\ threads' = [threads EXCEPT ![i] =
               IF status = 404 THEN Answered(th, 500, <<>>)
               ELSE IF Raises(status) THEN Answered(th, status, <<>>)
               ELSE [th EXCEPT !.pc = "l145", !.task = <<assigned_tasks[th.task_id].task>>]]
        /\ UNCHANGED <<server, worker>>

\* del assigned_tasks[task_id]
release_task_l145(i) ==
    LET th == threads[i]
    IN  /\ th.pc = "l145"
        /\ IF th.task_id \notin DOMAIN assigned_tasks
           THEN /\ threads' = [threads EXCEPT ![i] = Answered(th, 500, <<>>)]
                /\ UNCHANGED assigned_tasks
           ELSE /\ assigned_tasks' = RemoveLease(assigned_tasks, th.task_id)
                /\ threads' = [threads EXCEPT ![i].pc = "l149"]
        /\ UNCHANGED <<registered_workers, tasks_queue, job_status, job_dirs,
                       results_files, task_uuids, now, enqueued, dispatched, released,
                       job_files, worker>>

\* if job_id in job_status, else return
release_task_l149(i) ==
    LET th == threads[i]
    IN  /\ th.pc = "l149"
        /\ IF th.task[1].job_id \in DOMAIN job_status
           THEN /\ threads' = [threads EXCEPT ![i].pc = "l150"]
                /\ UNCHANGED released
           ELSE /\ threads' = [threads EXCEPT ![i] = Answered(th, 200, <<>>)]
                /\ released' = released \cup {th.task_id}
        /\ UNCHANGED <<registered_workers, tasks_queue, assigned_tasks, job_status,
                       job_dirs, results_files, task_uuids, now, enqueued, dispatched,
                       job_files, worker>>

\* current_job = job_status[job_id] (KeyError when the key is gone), then the
\* branch on task_job_type
release_task_l150(i) ==
    LET th == threads[i]
        job_id == th.task[1].job_id
        task_job_type == th.task[1].payload.job_type
    IN  /\ th.pc = "l150"
        /\ IF job_id \notin DOMAIN job_status
           THEN /\ threads' = [threads EXCEPT ![i] = Answered(th, 500, <<>>)]
                /\ UNCHANGED released
           ELSE IF task_job_type \in {"sort_map", "sort_reduce"}
           THEN /\ threads' = [threads EXCEPT ![i] =
                       [th EXCEPT !.job = <<job_id>>,
                                  !.pc = IF task_job_type = "sort_map"
                                         THEN "l153" ELSE "l184"]]
                /\ UNCHANGED released
           ELSE /\ threads' = [threads EXCEPT ![i] = Answered(th, 200, <<>>)]
                /\ released' = released \cup {th.task_id}
        /\ UNCHANGED <<registered_workers, tasks_queue, assigned_tasks, job_status,
                       job_dirs, results_files, task_uuids, now, enqueued, dispatched,
                       job_files, worker>>

\* current_job["completed_tasks"] += 1, the read
release_task_l153(i) ==
    LET th == threads[i]
    IN  /\ th.pc = "l153"
        /\ threads' = [threads EXCEPT ![i] =
               [th EXCEPT !.loaded = CurrentJob(th).completed_tasks, !.pc = "l153_store"]]
        /\ UNCHANGED <<server, worker>>

\* current_job["completed_tasks"] += 1, the write
release_task_l153_store(i) ==
    LET th == threads[i]
    IN  /\ th.pc = "l153_store"
        /\ IF th.detached # <<>>
           THEN /\ threads' = WriteDetached(th, i, th.loaded + 1, "l157")
                /\ UNCHANGED job_status
           ELSE /\ job_status' =
                       [job_status EXCEPT ![th.job[1]].completed_tasks = th.loaded + 1]
                /\ threads' = [threads EXCEPT ![i].pc = "l157"]
        /\ UNCHANGED <<registered_workers, tasks_queue, assigned_tasks, job_dirs,
                       results_files, task_uuids, now, enqueued, dispatched, released,
                       job_files, worker>>

\* if current_job["completed_tasks"] == current_job["total_tasks"], else return
release_task_l157(i) ==
    LET th == threads[i]
    IN  /\ th.pc = "l157"
        /\ IF AllMapsDone(CurrentJob(th))
           THEN /\ threads' = [threads EXCEPT ![i].pc = "l161"]
                /\ UNCHANGED released
           ELSE /\ threads' = [threads EXCEPT ![i] = Answered(th, 200, <<>>)]
                /\ released' = released \cup {th.task_id}
        /\ UNCHANGED <<registered_workers, tasks_queue, assigned_tasks, job_status,
                       job_dirs, results_files, task_uuids, now, enqueued, dispatched,
                       job_files, worker>>

\* the reduce task is built and put in the queue (lines 161 to 178), then return
release_task_l161(i) ==
    LET th == threads[i]
        reduce_task == ReduceTask(th.job[1], CurrentJob(th), task_uuids + 1)
    IN  /\ th.pc = "l161"
        /\ tasks_queue' = QueuePut(tasks_queue, reduce_task)
        /\ task_uuids' = task_uuids + 1
        /\ enqueued' = Append(enqueued, Enqueued(reduce_task, dispatched))
        /\ released' = released \cup {th.task_id}
        /\ threads' = [threads EXCEPT ![i] = Answered(th, 200, <<>>)]
        /\ UNCHANGED <<registered_workers, assigned_tasks, job_status, job_dirs,
                       results_files, now, dispatched, job_files, worker>>

\* del job_status[job_id] (KeyError when the key is gone), then return
release_task_l184(i) ==
    LET th == threads[i]
        job_id == th.job[1]
    IN  /\ th.pc = "l184"
        /\ IF job_id \notin DOMAIN job_status
           THEN /\ threads' = [threads EXCEPT ![i] = Answered(th, 500, <<>>)]
                /\ UNCHANGED <<job_status, released>>
           ELSE /\ job_status' = Del(job_status, job_id)
                /\ released' = released \cup {th.task_id}
                /\ threads' = DeletedJob(th, i, job_id)
        /\ UNCHANGED <<registered_workers, tasks_queue, assigned_tasks, job_dirs,
                       results_files, task_uuids, now, enqueued, dispatched, job_files,
                       worker>>

\* the coordinator after MaxThreads workers have registered and the sort job of
\* six lines in two chunks has been submitted; no request is being served
ConcInit ==
    /\ registered_workers = [w \in 1..MaxThreads |-> REGISTER_FORM]
    /\ tasks_queue = <<demo_task>> \o UploadJobTasks
    /\ assigned_tasks = EmptyMap
    /\ job_status = Put(EmptyMap, UploadJob, UploadJobCreated.initial_status)
    /\ job_dirs = {demo_job_id, UploadJob}
    /\ results_files = EmptyMap
    /\ task_uuids = demo_task_id + UploadJobCreated.uuids + Len(UploadJobTasks)
    /\ now = 0
    /\ enqueued = <<Enqueued(demo_task, <<>>)>> \o
                      [i \in 1..Len(UploadJobTasks) |-> Enqueued(UploadJobTasks[i], <<>>)]
    /\ dispatched = <<>>
    /\ released = {}
    /\ job_files = WriteJobFiles(demo_job_files, UploadJob, UploadJobCreated.files)
    /\ worker = <<>>
    /\ threads = [i \in 1..MaxThreads |-> ThreadIdle(i)]

ConcNext ==
    \/ \E i \in DOMAIN threads : assign_task_enter(i)
    \/ \E i \in DOMAIN threads : assign_task_l113(i)
    \/ \E i \in DOMAIN threads : assign_task_l116(i)
    \/ \E i \in DOMAIN threads : assign_task_l117(i)
    \/ \E i \in DOMAIN threads : assign_task_l119(i)
    \/ \E i \in DOMAIN threads : release_task_enter(i)
    \/ \E i \in DOMAIN threads : release_task_l135(i)
    \/ \E i \in DOMAIN threads : release_task_l145(i)
    \/ \E i \in DOMAIN threads : release_task_l149(i)
    \/ \E i \in DOMAIN threads : release_task_l150(i)
    \/ \E i \in DOMAIN threads : release_task_l153(i)
    \/ \E i \in DOMAIN threads : release_task_l153_store(i)
    \/ \E i \in DOMAIN threads : release_task_l157(i)
    \/ \E i \in DOMAIN threads : release_task_l161(i)
    \/ \E i \in DOMAIN threads : release_task_l184(i)

ConcSpec == ConcInit /\ [][ConcNext]_vars

\* C26: when get-task requests interleave, no task is handed to two workers, a
\* task that was handed out is leased to the worker that received it, and every
\* request is answered with a task or with the empty result, never with an error
C26_ConcurrentGetTaskIsAtomic ==
    /\ \A a, b \in DOMAIN dispatched : dispatched[a] = dispatched[b] => a = b
    /\ \A i \in DOMAIN threads :
          /\ threads[i].request = "get_task" => threads[i].status \in {0, 200}
          /\ threads[i].held # <<>> =>
                /\ threads[i].held[1].task_id \in Leased
                /\ assigned_tasks[threads[i].held[1].task_id].worker_id
                      = threads[i].worker_id

\* the threads inside release_task for a task of job_id
Releasing(job_id) ==
    {i \in DOMAIN threads :
        /\ threads[i].request = "release_task"
        /\ threads[i].pc # "idle"
        /\ \E e \in DOMAIN enqueued :
              /\ enqueued[e].task_id = threads[i].task_id
              /\ enqueued[e].job_id = job_id}

\* C27: once the concurrent releases of the sort_map tasks of a job have been
\* answered, completed_tasks counts each of them (no lost update), and when that
\* is all of them exactly one sort_reduce task has been put in the queue; at no
\* time has a job more than one sort_reduce task
C27_ConcurrentReleasesCountEach ==
    \A job_id \in DOMAIN job_status :
        /\ Cardinality(TasksOf(job_id, "sort_reduce")) <= 1
        /\ ( /\ Releasing(job_id) = {}
             /\ Released(job_id, "sort_map") = TasksOf(job_id, "sort_map") ) =>
               /\ job_status[job_id].completed_tasks
                     = Cardinality(TasksOf(job_id, "sort_map"))
               /\ Cardinality(TasksOf(job_id, "sort_reduce")) = 1

-----------------------------------------------------------------------------
(* The sharder of the map plugin, on files of every length *)

\* bounds on the files submitted, on num_chunks and on the map tasks created
MaxShardLines == 6
MaxShardChunks == 3
MaxShardTasks == 4

\* the file of k lines: the lines of the demo data, over again past the sixth
ShardFile(k) == [i \in 1..k |-> DemoLines[((i - 1) % Len(DemoLines)) + 1]]
ShardFiles == {ShardFile(k) : k \in 0..MaxShardLines}

\* sort jobs are submitted to a freshly started coordinator
ShardInit == Init

ShardNext ==
    \E f \in ShardFiles, n \in 1..MaxShardChunks :
        /\ MapTasksWithin(MaxShardTasks, f, n)
        /\ submit_job("sort_map", f, n)
        /\ UNCHANGED clients

ShardSpec == ShardInit /\ [][ShardNext]_vars

\* the chunk files in the directory of job_id
ChunksOf(files, job_id) ==
    {k \in DOMAIN files :
        k.job_id = job_id /\ k.filename # UnsortedFilename(SubmittedFilename)}

\* ceil(a / b)
Ceil(a, b) == (a + b - 1) \div b

\* C28: a sort job submitted with a file of total >= 1 lines and num_chunks
\* N >= 1 gets N chunks, every chunk but the last of ceil(total/N) lines and the
\* last of the remaining lines; tasks_created and total_tasks are the number of
\* chunks
C28_ShardSizeRule ==
    [][\A f \in ShardFiles, n \in 1..MaxShardChunks :
          (Len(f) >= 1 /\ submit_job("sort_map", f, n)) =>
              LET job_id == FreshJobId("sort_map", job_dirs)
                  chunks == ChunksOf(job_files', job_id)
                  size == Ceil(Len(f), n)
              IN  /\ job_id \in DOMAIN job_status'
                  /\ job_status'[job_id].total_tasks = Cardinality(chunks)
                  /\ submit_job_response("sort_map", f, n).tasks_created
                        = Cardinality(chunks)
                  /\ Cardinality(chunks) = n
                  /\ \A i \in 0..(n - 2) :
                        Len(job_files'[JobFile(job_id, ChunkFile(i))]) = size
                  /\ Len(job_files'[JobFile(job_id, ChunkFile(n - 1))])
                        = Len(f) - (n - 1) * size]_vars

-----------------------------------------------------------------------------
(* Registration *)

\* C29: the id a register call returns is none of the ids returned before (the
\* keys of the worker directory); the call adds that id, with the form sent,
\* and leaves the queue, the lease table and the job tracker alone; no step
\* removes or replaces an entry of the worker directory
C29_RegistrationMonotonicFresh ==
    /\ [](FreshWorkerId(registered_workers) \notin DOMAIN registered_workers)
    /\ [][\A data \in {REGISTER_FORM} :
            register_worker(data) =>
                LET worker_id == FreshWorkerId(registered_workers)
                IN  /\ DOMAIN registered_workers'
                          = DOMAIN registered_workers \cup {worker_id}
                    /\ registered_workers'[worker_id] = data
                    /\ UNCHANGED <<tasks_queue, assigned_tasks, job_status>>]_vars
    /\ [][\A w \in DOMAIN registered_workers :
            /\ w \in DOMAIN registered_workers'
            /\ registered_workers'[w] = registered_workers[w]]_vars

\* two register calls have returned two ids, with tasks queued and leased and a
\* job tracked
C29_Witness ==
    /\ \E a, b \in DOMAIN registered_workers : a # b
    /\ tasks_queue # <<>>
    /\ assigned_tasks # EmptyMap
    /\ job_status # EmptyMap

-----------------------------------------------------------------------------
(* Storage errors on upload *)

\* C30: an upload whose file cannot be stored is answered 500 and appends to
\* the map_results of no job; the queue, the lease table and the job tracker
\* stay as they were
C30_FailedUploadAppendsNothing ==
    /\ [](\A jt \in UploadArgs, fn \in FilenameArgs :
            upload_task_result_response(jt[1], jt[2], fn, FALSE).status = 500)
    /\ [][\A jt \in UploadArgs, fn \in FilenameArgs, c \in Contents :
            upload_task_result(jt[1], jt[2], fn, c, FALSE) =>
                /\ \A j \in DOMAIN job_status :
                      /\ j \in DOMAIN job_status'
                      /\ job_status'[j].map_results = job_status[j].map_results
                /\ UNCHANGED <<tasks_queue, assigned_tasks, job_status>>]_vars

\* an upload for a leased task of a tracked job can fail, with another task in
\* the queue
C30_Witness ==
    /\ \E jt \in UploadArgs, fn \in FilenameArgs :
          /\ jt[1] \in DOMAIN job_status
          /\ jt[2] \in Leased
          /\ UploadsWithin(MaxUploads, jt[1], jt[2], fn)
          /\ upload_task_result_response(jt[1], jt[2], fn, FALSE).status = 500
    /\ tasks_queue # <<>>

-----------------------------------------------------------------------------
(* Progress of a sort job *)

\* a registered worker polls
Poll == \E w \in DOMAIN registered_workers : assign_task(w) /\ UNCHANGED clients

\* a worker releases a task it holds the lease of
ReleaseHeld ==
    \E t \in DOMAIN assigned_tasks :
        release_task(assigned_tasks[t].worker_id, t) /\ UNCHANGED clients

\* a freshly started coordinator: the workers are yet to register
LiveInit ==
    /\ ServerInit
    /\ worker = <<>>
    /\ threads = <<>>

LiveNext ==
    \/ \E data \in {REGISTER_FORM} : register_worker(data) /\ UNCHANGED clients
    \/ Poll
    \/ ReleaseHeld
    \/ \E f \in Files, n \in NumChunksArgs :
          /\ MapTasksWithin(MaxMapTasks, f, n)
          /\ submit_job("sort_map", f, n)
          /\ UNCHANGED clients
    \/ \E jt \in UploadArgs, fn \in FilenameArgs, c \in Contents, saved \in BOOLEAN :
          /\ UploadsWithin(MaxUploads, jt[1], jt[2], fn)
          /\ upload_task_result(jt[1], jt[2], fn, c, saved)
          /\ UNCHANGED clients

\* main_loop is `while True`: a worker starts by registering, keeps polling,
\* and calls release_task for every task it received
LiveSpec ==
    /\ LiveInit
    /\ [][LiveNext]_vars
    /\ WF_vars(\E data \in {REGISTER_FORM} : register_worker(data) /\ UNCHANGED clients)
    /\ WF_vars(Poll)
    /\ WF_vars(ReleaseHeld)

\* the n-th sort job submitted
SortJob(n) == [prefix |-> "sort_map", uuid8 |-> n]

\* C31: with a worker that keeps polling and releases what it was handed, every
\* sort job that was submitted successfully (it is tracked) gets to the state
\* where its sort_reduce task has been released and its tracker entry is gone,
\* whether or not its tasks could be executed and their results uploaded
C31_SortJobCompletes ==
    \A n \in 1..MaxMapTasks :
        (SortJob(n) \in DOMAIN job_status)
            ~> ( /\ SortJob(n) \notin DOMAIN job_status
                 /\ Released(SortJob(n), "sort_reduce") # {} )

\* a sort job of two map tasks has run to its end without a single upload: its
\* sort_reduce task is released and its tracker entry is gone
C31_Witness ==
    \E n \in 1..MaxMapTasks :
        /\ Cardinality(TasksOf(SortJob(n), "sort_map")) = 2
        /\ SortJob(n) \notin DOMAIN job_status
        /\ Released(SortJob(n), "sort_reduce") # {}
        /\ results_files = EmptyMap

-----------------------------------------------------------------------------
(* Leases are written once *)

\* C32: a lease is never extended or rewritten: whatever the step (get-task
\* and release-task for other tasks, rejected releases, uploads, submissions,
\* registrations, the clock), a lease that is still in the table after it has
\* the worker_id, deadline and task it had before, and a lease that enters the
\* table is for a task that was queued and runs for lease_time from now
C32_LeaseNeverRewritten ==
    [][/\ \A t \in DOMAIN assigned_tasks :
             t \in DOMAIN assigned_tasks' => assigned_tasks'[t] = assigned_tasks[t]
       /\ \A t \in DOMAIN assigned_tasks' \ DOMAIN assigned_tasks :
             /\ t \in Queued
             /\ assigned_tasks'[t].lease_expires = now + lease_time]_vars

\* a lease whose deadline has passed is still in the table, next to a lease
\* written after it, with a task released and both workers registered
C32_Witness ==
    /\ \E t, u \in Leased :
          /\ assigned_tasks[t].lease_expires < now
          /\ assigned_tasks[u].lease_expires > now
    /\ released # {}
    /\ Cardinality(DOMAIN registered_workers) >= 2

-----------------------------------------------------------------------------
(* Removal of tracker entries *)

\* C33: a tracker entry leaves job_status only in a release-task call that
\* succeeds for a sort_reduce task of that job: no other step removes one, the
\* chaining logic keeps the entry when the task released is a sort_map, a
\* hash-crack or a demo task, and releasing a task whose job is not tracked
\* removes the lease and changes nothing else
C33_TrackerRemovedByReduceReleaseOnly ==
    /\ [](\A j \in DOMAIN job_status,
             jt \in {"sort_map", "hashcat_crack", "hashcat_demo"} :
            j \in DOMAIN JobChaining(j, jt, job_status, tasks_queue,
                                     task_uuids).job_status)
    /\ [][/\ \A j \in DOMAIN job_status \ DOMAIN job_status' :
                \E t \in DOMAIN assigned_tasks :
                    /\ assigned_tasks[t].task.job_id = j
                    /\ assigned_tasks[t].task.payload.job_type = "sort_reduce"
                    /\ release_task(assigned_tasks[t].worker_id, t)
          /\ \A w \in WorkerArgs, t \in TaskArgs :
                ( /\ release_task_response(w, t).status = 200
                  /\ assigned_tasks[t].task.job_id \notin DOMAIN job_status
                  /\ release_task(w, t) ) =>
                    /\ assigned_tasks' = Del(assigned_tasks, t)
                    /\ UNCHANGED <<registered_workers, tasks_queue, job_status,
                                   job_dirs, results_files>>]_vars

\* the tracker entry of one sort job is gone with its sort_reduce task released,
\* the demo task, whose job was never tracked, is released, and another sort job
\* is still tracked with a map task released
C33_Witness ==
    /\ \E j \in SortJobs :
          j \notin DOMAIN job_status /\ Released(j, "sort_reduce") # {}
    /\ demo_task_id \in released
    /\ \E j \in DOMAIN job_status : Released(j, "sort_map") # {}

-----------------------------------------------------------------------------
(* The status of a hash-crack job *)

\* bound on the results uploaded for one hash-crack job
MaxCrackUploads == 1

\* the files a hash-crack task uploads
CrackedFilenames == {"cracked.txt"}
CrackedContents == {"8743b52063cd84097a65d1633f5c74f5:hashcat"}

\* hash-crack jobs as create_job_tasks leaves them, some with tasks leased and
\* results uploaded; the hook runs for their tasks while the coordinator serves
\* get-task, release-task and uploads
CrackInit == HookInit

CrackNext ==
    \/ \E task \in HookQueueTasks \cup HookLeasedTasks :
          on_task_complete(task) /\ UNCHANGED clients
    \/ \E w \in DOMAIN registered_workers : assign_task(w) /\ UNCHANGED clients
    \/ \E t \in DOMAIN assigned_tasks :
          release_task(assigned_tasks[t].worker_id, t) /\ UNCHANGED clients
    \/ \E t \in DOMAIN assigned_tasks, fn \in CrackedFilenames, c \in CrackedContents :
          /\ UploadsWithin(MaxCrackUploads, assigned_tasks[t].task.job_id, t, fn)
          /\ upload_task_result(assigned_tasks[t].task.job_id, t, fn, c, TRUE)
          /\ UNCHANGED clients

CrackSpec == CrackInit /\ [][CrackNext]_vars

\* the hash-crack jobs the tracker holds
HashJobs == {j \in DOMAIN job_status : job_status[j].job_type = "hashcat"}

\* C34: a hash-crack job is created with status "running"; its status is
\* "cracked" only while its map_results is non-empty; no step takes a job that
\* is "cracked" back to "running" or out of the tracker; and once a job is
\* "cracked" none of its tasks is in the queue, the releases of the tasks still
\* leased included
C34_CrackedIsJustifiedAndFinal ==
    /\ [](\A n \in 1..MaxShardChunks : HashcatStatus(n, <<>>).status = "running")
    /\ [](\A j \in HashJobs :
            /\ job_status[j].status \in {"running", "cracked"}
            /\ job_status[j].status = "cracked" =>
                  /\ job_status[j].map_results # <<>>
                  /\ QueuedOf(tasks_queue, j) = {})
    /\ [][\A j \in HashJobs :
            job_status[j].status = "cracked" =>
                /\ j \in DOMAIN job_status'
                /\ job_status'[j].status = "cracked"]_vars

\* the kill-switch of the first job has fired on an uploaded result, and a task
\* of that job that was leased at the time has been released since
C34_Witness ==
    /\ HashJob(1) \in DOMAIN job_status
    /\ job_status[HashJob(1)].status = "cracked"
    /\ results_files # EmptyMap
    /\ \E t \in released : \E task \in HookLeasedTasks :
          task.task_id = t /\ task.job_id = HashJob(1)

-----------------------------------------------------------------------------
(* The two sharders *)

\* bound on the job directories the sharders fill
MaxPartitionJobs == 2

\* HashcatPlugin._shard_wordlist: the chunks written, [] when the division by
\* num_chunks raises (the except clause returns [])
ShardWordlist(lines, num_chunks) ==
    IF num_chunks = 0 THEN <<>>
    ELSE LET total_lines == Len(lines)
             chunk_size == (total_lines \div num_chunks) + 1
             starts == {i \in 0..(total_lines - 1) : i % chunk_size = 0}
         IN  [c \in 1..Cardinality(starts) |->
                 LET i == (c - 1) * chunk_size
                 IN  SubSeq(lines, i + 1,
                            IF i + chunk_size < total_lines
                            THEN i + chunk_size ELSE total_lines)]

\* the files HashcatPlugin.create_job_tasks leaves in job_dir: the wordlist and
\* its chunks
HashcatJobFiles(lines, num_chunks) ==
    LET chunks == ShardWordlist(lines, num_chunks)
    IN  [f \in {"wordlist.txt"} \cup {ChunkFile(i - 1) : i \in 1..Len(chunks)} |->
            IF f = "wordlist.txt" THEN lines
            ELSE chunks[CHOOSE i \in 1..Len(chunks) : ChunkFile(i - 1) = f]]

\* HashcatPlugin.create_job_tasks applied to the directory of a new job: the
\* coordinator registers no creator for hashcat_crack, so the plugin is applied
\* as submit_job would apply it
hashcat_create_job_tasks(file, num_chunks) ==
    LET job_id == FreshJobId("hashcat_crack", job_dirs)
    IN  /\ job_dirs' = MakeDirs(job_dirs, job_id)
        /\ job_files' = WriteJobFiles(job_files, job_id,
                                      HashcatJobFiles(file, num_chunks))
        /\ UNCHANGED <<registered_workers, tasks_queue, assigned_tasks, job_status,
                       results_files, task_uuids, now, enqueued, dispatched, released>>

PartitionInit == Init

PartitionNext ==
    \/ \E f \in ShardFiles, n \in 1..MaxShardChunks :
          /\ Cardinality(job_dirs) <= MaxPartitionJobs
          /\ submit_job("sort_map", f, n)
          /\ UNCHANGED clients
    \/ \E f \in ShardFiles, n \in 1..MaxShardChunks :
          /\ Cardinality(job_dirs) <= MaxPartitionJobs
          /\ hashcat_create_job_tasks(f, n)
          /\ UNCHANGED clients

PartitionSpec == PartitionInit /\ [][PartitionNext]_vars

\* the chunk files in the directory of job_id, in chunk-index order
ChunkFilesOf(files, job_id) ==
    LET present == {i \in 0..3 : JobFile(job_id, ChunkFile(i)) \in DOMAIN files}
    IN  [c \in 1..Cardinality(present) |->
            files[JobFile(job_id, ChunkFile(CHOOSE i \in present :
                      Cardinality({k \in present : k < i}) = c - 1))]]

RECURSIVE Concat(_)
\* the chunks one after the other
Concat(chunks) ==
    IF chunks = <<>> THEN <<>> ELSE Head(chunks) \o Concat(Tail(chunks))

\* between 1 and n chunks, none of them empty, that make up the file
IsPartition(chunks, file, n) ==
    /\ Len(chunks) \in 1..n
    /\ Concat(chunks) = file
    /\ \A c \in 1..Len(chunks) : chunks[c] # <<>>

\* C35: for a file of total >= 1 lines and num_chunks N >= 1, the sort sharder
\* and the wordlist sharder each write between 1 and N chunks whose lines, in
\* chunk-index order, are the lines of the file, and write no empty chunk
C35_ShardingPartitions ==
    [][\A f \in ShardFiles, n \in 1..MaxShardChunks :
          /\ (Len(f) >= 1 /\ submit_job("sort_map", f, n)) =>
                IsPartition(ChunkFilesOf(job_files', FreshJobId("sort_map", job_dirs)),
                            f, n)
          /\ (Len(f) >= 1 /\ hashcat_create_job_tasks(f, n)) =>
                IsPartition(ChunkFilesOf(job_files',
                                         FreshJobId("hashcat_crack", job_dirs)),
                            f, n)]_vars

====
